---- MODULE Spec2Model ----
(***************************************************************************)
(* Model of the statusbar render loops.                                    *)
(*                                                                         *)
(*   SpecBar    : src/bin/statusbar-rs/main.rs, the bar-stream render loop *)
(*                over the block registry, woken by an mpsc channel.       *)
(*   SpecServer : src/bin/statusbar-server/main.rs, one block published to *)
(*                socket sessions through the content cache.               *)
(*   SpecRouter : event_handler of statusbar-rs and of src/main.rs.        *)
(*   SpecInbound: the inbound thread of a statusbar-server session.        *)
(*   SpecStream : what main() of statusbar-rs prints, from its start.      *)
(*   SpecWaybar : the loop of src/bin/statusbar-waybar/main.rs.            *)
(*   SpecTasks  : SpecBar with the producers' background tasks.            *)
(*   SpecBattery: BatteryBlock::render against the bluetooth and HID++    *)
(*                threads and the lock of the bluetooth devices map.       *)
(*   SpecSocket : SocketBlock, its reader thread, render() and click().    *)
(*   SpecProducer: the notifying background tasks, statement by statement, *)
(*                against a tick loop.                                     *)
(*   SpecTimestamp: seconds_to_timestamp of the kimai block.               *)
(*   SpecKimai  : KimaiBlock, its request thread, render() and click().    *)
(*   SpecVolume : VolumeBlock, its supervisor, pulse thread and command    *)
(*                thread; SpecVolumeFair adds the threads' progress.       *)
(***************************************************************************)
EXTENDS Integers, Sequences, FiniteSets

(***************************************************************************)
(* Bounds of the model.                                                    *)
(***************************************************************************)
NumBlocks == 3
MaxQueue == 2
MaxSessions == 2
MaxChanges == 2
MaxLines == 2
MaxOut == 4

\* Entries of the bluetooth `devices` map.
MaxDevices == 2

\* Updates a background task commits, and events written to a socket.
MaxUpdates == 2

\* The largest number of whole hours in a sample of the kimai block, and
\* the largest threshold of its notification.
MaxHours == 2

\* Requests of the kimai request thread.
MaxFetches == 3

\* The largest argument of seconds_to_timestamp; ten hours and a little.
MaxSeconds == 36100

(***************************************************************************)
(* Values.                                                                 *)
(***************************************************************************)
\* Option<I3Block> as returned by Block::render: None, or Some(block) with
\* the full_text and the name the producer itself put into the block.
NoneBlock == [some |-> FALSE, full_text |-> "", name |-> ""]

I3Block(t, n) == [some |-> TRUE, full_text |-> t, name |-> n]

\* What a producer can render: nothing, a block with the default (empty)
\* name, or a block that carries a name of its own (the socket block hands
\* on whatever name it received).
RenderValues == {NoneBlock, I3Block("x", ""), I3Block("y", "9")}

Indices == 0 .. (NumBlocks - 1)

\* usize::to_string: the decimal representation.
Digit(d) ==
    CASE d = 0 -> "0" [] d = 1 -> "1" [] d = 2 -> "2" [] d = 3 -> "3"
      [] d = 4 -> "4" [] d = 5 -> "5" [] d = 6 -> "6" [] d = 7 -> "7"
      [] d = 8 -> "8" [] d = 9 -> "9"

RECURSIVE to_string(_)
to_string(n) == IF n < 10 THEN Digit(n) ELSE to_string(n \div 10) \o Digit(n % 10)

\* The threads that own a clone of the wake Sender of statusbar-rs.  The
\* volume block stores its Sender in the block itself, which lives in the
\* registry for the whole run; the dunst sender lives in the listener
\* thread, which ends with its D-Bus stream (or is dropped at once when
\* DunstBlock::new cannot connect).
Holders == {"volume", "dunst"}

DroppableAll == Holders

Droppable == {"dunst"}

VARIABLES
    state,      \* bar: what each producer's render() returns right now
    senders,    \* the holders whose Sender<()> is still alive
    wakeQueue,  \* number of () messages queued in the wake channel
    pc,         \* position of the main thread
    index,      \* bar: loop variable of the enumerate() over the registry
    out,        \* bar: the Vec<I3Block> under construction
    rendered,   \* bar: what render() returned for each block of this tick
    frame,      \* bar: the frame printed by the current iteration of the loop
    elapsed,    \* whether the recv_timeout deadline has passed
    reason,     \* how the last recv_timeout returned
    consumers,  \* server: the Vec of session wake senders, by session
    content,    \* server: the content cache
    last,       \* server: the tick loop's copy of the last payload
    acceptPc,   \* server: position of the accept thread
    spc,        \* server: position of each session's outbound thread
    rpc,        \* server: position of each session's inbound thread
    wake,       \* server: messages queued in each session's channel
    written,    \* server: the payloads each client was sent, in order
    client,     \* server: what the peer of each connection is doing
    writerPref, \* server: whether RwLock readers queue behind a waiting writer
    changes,    \* server: number of ticks whose payload differed so far
    wroteSinceTick, \* server: whether a client was sent bytes since the last render
    input,      \* readers: the lines the peer sends on stdin or on the socket
    rdPos,      \* readers: number of lines the reading thread has taken
    rdPc,       \* readers: position of the reading thread
    clicked,    \* readers: the click() calls made so far, in order
    binary,     \* which program the reading or printing thread belongs to
    served,     \* server: the block named on the command line
    stdout,     \* adapters: the lines printed to stdout so far, as tokens
    committer,  \* the background task that committed producer state last, and a
                \* bit that flips with every such commit
    tpc,        \* producers: position of each thread of the producer observed
    holder,     \* producers: the thread that holds the producer's write guard
                \* (battery: of `devices`; socket: of `stream`)
    devices,    \* battery: number of entries of the bluetooth `devices` map
    todo,       \* battery: entries update() has still to ask the bus about
    connected,  \* socket: the AtomicBool `connected`
    stream,     \* socket: whether the RwLock `stream` holds Some(stream)
    peer,       \* socket: number of events written to the socket so far
    available,  \* socket: whether a server listens on the socket path
    connects,   \* socket: number of successful connects, up to MaxUpdates
    committed,  \* producers: number of updates each task has committed
    announced,  \* producers: the wake channel, each () tagged with the task
                \* and the number of the update it was sent for
    owed,       \* producers: per task, the newest update whose notification
                \* the tick loop has consumed
    shown,      \* producers: per task, the update the last render() read
    kimai,      \* kimai: current_state, the request thread and what it did
    pulse,      \* volume: the supervisor, the pulse thread and its State
    stamp       \* kimai: an argument of seconds_to_timestamp and its result

barVars == <<state, senders, wakeQueue, pc, index, out, rendered, frame, elapsed, reason>>

srvVars == <<consumers, content, last, acceptPc, spc, rpc, wake, written, client,
             writerPref, changes, wroteSinceTick>>

ioVars == <<input, rdPos, rdPc, clicked, binary, served, stdout, committer>>

blkVars == <<tpc, holder, devices, todo, connected, stream, peer, available, connects,
             committed, announced, owed, shown>>

blkVarsButTpc == <<holder, devices, todo, connected, stream, peer, available, connects,
                   committed, announced, owed, shown>>

auxVars == <<kimai, pulse, stamp>>

vars == <<barVars, srvVars, ioVars, blkVars, auxVars>>

\* No producer's threads are observed.
BlkIdle ==
    /\ tpc = <<>>
    /\ holder = "none"
    /\ devices = 0
    /\ todo = 0
    /\ connected = FALSE
    /\ stream = "None"
    /\ peer = 0
    /\ available = FALSE
    /\ connects = 0
    /\ committed = <<>>
    /\ announced = <<>>
    /\ owed = <<>>
    /\ shown = <<>>

\* The readers, the adapters' stdout and the background tasks are not
\* observed.
IoIdle ==
    /\ input = <<>>
    /\ rdPos = 0
    /\ rdPc = "none"
    /\ clicked = <<>>
    /\ binary = "none"
    /\ served = "none"
    /\ stdout = <<>>
    /\ committer = <<"none", 0>>

\* The kimai block and the volume block are not observed.
AuxIdle ==
    /\ kimai = [pc |-> "none"]
    /\ pulse = [pc |-> "none"]
    /\ stamp = [seconds |-> 0, text |-> <<>>]

(***************************************************************************)
(* statusbar-rs                                                            *)
(***************************************************************************)
InitBar ==
    /\ state \in [Indices -> RenderValues]
    /\ senders \in {S \in SUBSET Holders : "volume" \in S}
    /\ wakeQueue = 0
    /\ pc = "render"
    /\ index = 0
    /\ out = <<>>
    /\ rendered = <<>>
    /\ frame = <<>>
    /\ elapsed = FALSE
    /\ reason = "start"
    /\ consumers = <<>>
    /\ content = ""
    /\ last = ""
    /\ acceptPc = "none"
    /\ spc = <<>>
    /\ rpc = <<>>
    /\ wake = <<>>
    /\ written = <<>>
    /\ client = <<>>
    /\ writerPref = FALSE
    /\ changes = 0
    /\ wroteSinceTick = FALSE
    /\ IoIdle
    /\ BlkIdle
    /\ AuxIdle

\* A producer's background task commits new state and notifies the wake
\* channel through the Sender it holds.
ProducerNotify(i, v, h) ==
    /\ h \in senders
    /\ wakeQueue < MaxQueue
    /\ state[i] # v
    /\ state' = [state EXCEPT ![i] = v]
    /\ wakeQueue' = wakeQueue + 1
    /\ UNCHANGED <<auxVars, blkVars, ioVars, senders, pc, index, out, rendered, frame, elapsed, reason, srvVars>>

\* A producer without a background task (load, temperature, date, ...)
\* renders something else the next time it is asked.
ProducerChange(i, v) ==
    /\ state[i] # v
    /\ state' = [state EXCEPT ![i] = v]
    /\ UNCHANGED <<auxVars, blkVars, ioVars, senders, wakeQueue, pc, index, out, rendered, frame, elapsed, reason, srvVars>>

\* A listener thread ends and drops its Sender.
SenderDrop(h) ==
    /\ h \in senders
    /\ h \in Droppable
    /\ senders' = senders \ {h}
    /\ UNCHANGED <<auxVars, blkVars, ioVars, state, wakeQueue, pc, index, out, rendered, frame, elapsed, reason, srvVars>>

NamedByPosition(b, i, o) == [full_text |-> b.full_text, name |-> to_string(Len(o))]

\* The snapshot pushed for the block at registry index i, out being o.
Named(b, i, o) == [full_text |-> b.full_text, name |-> to_string(i)]

PushUntilNone(o, b, i) ==
    IF b.some /\ Len(o) = i THEN Append(o, Named(b, i, o)) ELSE o

\* What the body of the for loop does to out for one block.
Push(o, b, i) == IF b.some THEN Append(o, Named(b, i, o)) ELSE o

\* One iteration of `for (index, block) in blocks.iter().enumerate()`.
RenderBlock ==
    /\ pc = "render"
    /\ index < NumBlocks
    /\ rendered' = Append(rendered, state[index])
    /\ out' = Push(out, state[index], index)
    /\ index' = index + 1
    /\ UNCHANGED <<auxVars, blkVars, ioVars, state, senders, wakeQueue, pc, frame, elapsed, reason, srvVars>>

\* println!("{},", ...); out.clear(); and the start of recv_timeout.
Emit ==
    /\ pc = "render"
    /\ index = NumBlocks
    /\ frame' = out
    /\ out' = <<>>
    /\ pc' = "wait"
    /\ elapsed' = FALSE
    /\ UNCHANGED <<auxVars, blkVars, ioVars, state, senders, wakeQueue, index, rendered, reason, srvVars>>

\* The deadline of the running recv_timeout passes.
TimerElapse ==
    /\ pc = "wait"
    /\ ~elapsed
    /\ elapsed' = TRUE
    /\ UNCHANGED <<auxVars, blkVars, ioVars, state, senders, wakeQueue, pc, index, out, rendered, frame, reason, srvVars>>

\* mpsc::Receiver::recv_timeout: Ok(()) takes one queued message,
\* Err(Disconnected) when the queue is empty and no Sender is left,
\* Err(Timeout) when the deadline has passed.
RecvResult ==
    IF wakeQueue > 0 THEN "wake"
    ELSE IF senders = {} THEN "disconnected"
    ELSE IF elapsed THEN "timeout"
    ELSE "blocked"

\* recv_timeout returns; the result is discarded and the loop starts over.
WaitReturn ==
    /\ pc = "wait"
    /\ RecvResult # "blocked"
    /\ reason' = RecvResult
    /\ wakeQueue' = IF wakeQueue > 0 THEN wakeQueue - 1 ELSE 0
    /\ pc' = "render"
    /\ index' = 0
    /\ rendered' = <<>>
    /\ frame' = <<>>
    /\ UNCHANGED <<auxVars, blkVars, ioVars, state, senders, out, elapsed, srvVars>>

NextBar ==
    \/ \E i \in Indices, v \in RenderValues, h \in Holders : ProducerNotify(i, v, h)
    \/ \E i \in Indices, v \in RenderValues : ProducerChange(i, v)
    \/ \E h \in Holders : SenderDrop(h)
    \/ RenderBlock
    \/ Emit
    \/ TimerElapse
    \/ WaitReturn

SpecBar == InitBar /\ [][NextBar]_vars

(***************************************************************************)
(* statusbar-server                                                        *)
(***************************************************************************)
Sessions == 1 .. MaxSessions

\* serde_json::to_string of an I3Block whose optional fields are None.
Serialize(b) ==
    "{\"full_text\":\"" \o b.full_text \o "\",\"name\":\"" \o b.name \o "\"}"

PlaceholderCompact == Serialize([full_text |-> "", name |-> ""])

\* The string published when the block renders None.
Placeholder == "{\"full_text\":\"\", \"name\":\"\"}"

\* `out` of one tick: the serialized block or the placeholder, and '\n'.
Payload(b) == (IF b.some THEN Serialize(b) ELSE Placeholder) \o "\n"

\* The test `out != last` of the tick loop.
ChangedAlways(o, l) == TRUE

Changed(o, l) == o # l

\* Where the tick loop goes after the comparison of `out` with `last`.
AfterCompareSignalFirst(changed) == IF changed THEN "lock_consumers" ELSE "wait"

AfterCompare(changed) == IF changed THEN "lock_content" ELSE "wait"

\* (*content.write().unwrap()).clone_from(&out): the new value of the cache.
KeepCache(c, o) == c

clone_from(c, o) == o

\* consumers.write().unwrap().push(send.clone()): the new session set.
PushNothing(c, s) == c

push(c, s) == Append(c, s)

\* Where the tick loop goes after `let _idc = send.send(())`.
AfterSendUnwrap(ok) == IF ok THEN "fanout" ELSE "panicked"

AfterSend(ok) == "fanout"

\* Where a session's outbound thread goes once it has pushed its sender.
AfterRegisterNoWrite == "recv"

AfterRegister == "init"

\* The sessions whose outbound thread holds a read guard of the content
\* cache across steps: the guard lives for the whole write_all call, which
\* blocks while the peer does not read.
Readers == {s \in Sessions : spc[s] = "writing"}

\* Whether content.read() returns now.  The writer holds the lock only
\* within one step; a policy that prefers writers keeps new readers out
\* while the tick loop waits in content.write().
CanReadLock == ~(writerPref /\ pc = "lock_content")

Registered(s) == \E k \in 1 .. Len(consumers) : consumers[k] = s

\* What the server's block can render: nothing or a block.
BlockValues == {NoneBlock, I3Block("x", "")}

InitServer ==
    /\ state \in [{0} -> BlockValues]
    /\ senders = {"main"}
    /\ wakeQueue = 0
    /\ pc = "render"
    /\ index = 0
    /\ out = ""
    /\ rendered = <<>>
    /\ frame = <<>>
    /\ elapsed = FALSE
    /\ reason = "start"
    /\ consumers = <<>>
    /\ content = ""
    /\ last = ""
    /\ acceptPc = "running"
    /\ spc = [s \in Sessions |-> "idle"]
    /\ rpc = [s \in Sessions |-> "idle"]
    /\ wake = [s \in Sessions |-> 0]
    /\ written = [s \in Sessions |-> <<>>]
    /\ client = [s \in Sessions |-> "none"]
    /\ writerPref \in BOOLEAN
    /\ changes = 0
    /\ wroteSinceTick = FALSE
    /\ IoIdle
    /\ BlkIdle
    /\ AuxIdle

\* The block's background work commits a new state.  A notification sent
\* with it only ends the tick loop's wait early, which TickWait covers.
BlockUpdate(v) ==
    /\ changes < MaxChanges
    /\ state[0] # v
    /\ state' = [state EXCEPT ![0] = v]
    /\ UNCHANGED <<auxVars, blkVars, ioVars, senders, wakeQueue, pc, index, out, rendered, frame, elapsed, reason,
                   consumers, content, last, acceptPc, spc, rpc, wake, written,
                   client, writerPref, changes, wroteSinceTick>>

\* Render the block, build `out` and compare it with `last`.
TickRender ==
    /\ pc = "render"
    /\ out' = Payload(state[0])
    /\ wroteSinceTick' = FALSE
    /\ pc' = AfterCompare(Changed(out', last))
    /\ changes' = IF out' # last THEN changes + 1 ELSE changes
    /\ UNCHANGED <<auxVars, blkVars, ioVars, state, senders, wakeQueue, index, rendered, frame, elapsed, reason,
                   consumers, content, last, acceptPc, spc, rpc, wake, written,
                   client, writerPref>>

\* content.write() is granted once no reader holds the lock; the cache and
\* `last` take the new payload.
TickWriteContent ==
    /\ pc = "lock_content"
    /\ Readers = {}
    /\ content' = clone_from(content, out)
    /\ last' = out
    /\ pc' = "lock_consumers"
    /\ UNCHANGED <<auxVars, blkVars, ioVars, state, senders, wakeQueue, index, out, rendered, frame, elapsed,
                   reason, consumers, acceptPc, spc, rpc, wake, written, client,
                   writerPref, changes, wroteSinceTick>>

\* consumers.read() for the fan-out loop.
TickLockConsumers ==
    /\ pc = "lock_consumers"
    /\ pc' = "fanout"
    /\ index' = 0
    /\ UNCHANGED <<auxVars, blkVars, ioVars, state, senders, wakeQueue, out, rendered, frame, elapsed, reason,
                   consumers, content, last, acceptPc, spc, rpc, wake, written,
                   client, writerPref, changes, wroteSinceTick>>

\* One send of the fan-out loop.  The send fails when the receiving thread
\* has ended; the result is ignored.
TickSend ==
    /\ pc = "fanout"
    /\ index < Len(consumers)
    /\ LET t == consumers[index + 1]
           ok == spc[t] # "done"
       IN /\ wake' = IF ok THEN [wake EXCEPT ![t] = @ + 1] ELSE wake
          /\ pc' = AfterSend(ok)
    /\ index' = index + 1
    /\ UNCHANGED <<auxVars, blkVars, ioVars, state, senders, wakeQueue, out, rendered, frame, elapsed, reason,
                   consumers, content, last, acceptPc, spc, rpc, written, client,
                   writerPref, changes, wroteSinceTick>>

\* The fan-out loop is over, the read guard is dropped, recv_timeout starts.
TickFanoutDone ==
    /\ pc = "fanout"
    /\ index = Len(consumers)
    /\ pc' = "wait"
    /\ UNCHANGED <<auxVars, blkVars, ioVars, state, senders, wakeQueue, index, out, rendered, frame, elapsed,
                   reason, srvVars>>

\* `let _ = recv.recv_timeout(sleep)` returns, with Ok or with Err: the
\* result is discarded and the loop starts over.
TickWait ==
    /\ pc = "wait"
    /\ pc' = "render"
    /\ UNCHANGED <<auxVars, blkVars, ioVars, state, senders, wakeQueue, index, out, rendered, frame, elapsed,
                   reason, srvVars>>

\* listener.incoming() yields a connection and both session threads start;
\* the outbound thread pushes its sender with
\* consumers.write().unwrap().push(send.clone()), which waits while the
\* fan-out loop holds the read lock.  Nothing another thread can see
\* happens between the accept and the push, so they are one step.
Accept(s) ==
    /\ acceptPc = "running"
    /\ spc[s] = "idle"
    /\ \A t \in Sessions : t < s => spc[t] # "idle"
    /\ pc # "fanout"
    /\ consumers' = push(consumers, s)
    /\ spc' = [spc EXCEPT ![s] = AfterRegister]
    /\ rpc' = [rpc EXCEPT ![s] = "reading"]
    /\ client' = [client EXCEPT ![s] = "open"]
    /\ UNCHANGED <<auxVars, blkVars, ioVars, barVars, content, last, acceptPc, wake, written,
                   writerPref, changes, wroteSinceTick>>

\* listener.incoming() yields an error, which is reported.
AcceptFail ==
    /\ acceptPc = "running"
    /\ UNCHANGED <<auxVars, blkVars, ioVars, barVars, srvVars>>

\* The peer closes its socket.  The inbound thread's blocking read_line
\* returns an empty line or an error and the thread leaves its loop; it
\* shares no state with the other threads, so its exit is taken in the
\* same step.
ClientClose(s) ==
    /\ client[s] = "open"
    /\ client' = [client EXCEPT ![s] = "closed"]
    /\ rpc' = [rpc EXCEPT ![s] = "done"]
    /\ UNCHANGED <<auxVars, blkVars, ioVars, barVars, consumers, content, last, acceptPc, spc, wake, written,
                   writerPref, changes, wroteSinceTick>>

\* Where the outbound thread of a session is once its inbound thread has
\* ended: the two threads share no state.
OutboundEndsToo(p) == "done"

AfterInboundEnd(p) == p

\* The inbound thread of a session ends while the connection stays open:
\* the peer has shut down its sending side (read_line returns an empty
\* line) or has sent bytes that are not UTF-8 (read_line returns Err).
InboundEnd(s) ==
    /\ rpc[s] = "reading"
    /\ client[s] = "open"
    /\ rpc' = [rpc EXCEPT ![s] = "done"]
    /\ spc' = [spc EXCEPT ![s] = AfterInboundEnd(@)]
    /\ UNCHANGED <<auxVars, blkVars, ioVars, barVars, consumers, content, last, acceptPc, wake, written,
                   client, writerPref, changes, wroteSinceTick>>

\* stream.write_all(content.read().unwrap().as_bytes()) returns Ok: at once
\* for the empty cache, else when the peer takes the bytes.  The read guard
\* is taken and dropped within the step.
SessionWriteOk(s) ==
    /\ spc[s] \in {"init", "write"}
    /\ CanReadLock
    /\ content = "" \/ client[s] = "open"
    /\ written' = IF content = "" THEN written
                  ELSE [written EXCEPT ![s] = Append(@, content)]
    /\ wroteSinceTick' = (wroteSinceTick \/ content # "")
    /\ spc' = [spc EXCEPT ![s] = "recv"]
    /\ UNCHANGED <<auxVars, blkVars, ioVars, barVars, consumers, content, last, acceptPc, rpc, wake, client,
                   writerPref, changes>>

\* The same statement with a peer that has stopped reading: write_all
\* blocks and the thread keeps its read guard of the cache.
SessionWriteBlock(s) ==
    /\ spc[s] \in {"init", "write"}
    /\ CanReadLock
    /\ content # ""
    /\ client[s] = "open"
    /\ spc' = [spc EXCEPT ![s] = "writing"]
    /\ UNCHANGED <<auxVars, blkVars, ioVars, barVars, consumers, content, last, acceptPc, rpc, wake, written,
                   client, writerPref, changes, wroteSinceTick>>

\* The peer reads again: the blocked write_all returns Ok and the guard is
\* dropped.
SessionWriteUnblock(s) ==
    /\ spc[s] = "writing"
    /\ client[s] = "open"
    /\ written' = [written EXCEPT ![s] = Append(@, content)]
    /\ wroteSinceTick' = TRUE
    /\ spc' = [spc EXCEPT ![s] = "recv"]
    /\ UNCHANGED <<auxVars, blkVars, ioVars, barVars, consumers, content, last, acceptPc, rpc, wake, client,
                   writerPref, changes>>

\* write_all returns Err, at once or after blocking: the thread reports it
\* and ends, dropping its guard and its receiver.
SessionWriteFail(s) ==
    /\ \/ spc[s] \in {"init", "write"} /\ CanReadLock
       \/ spc[s] = "writing"
    /\ content # ""
    /\ client[s] = "closed"
    /\ spc' = [spc EXCEPT ![s] = "done"]
    /\ UNCHANGED <<auxVars, blkVars, ioVars, barVars, consumers, content, last, acceptPc, rpc, wake, written,
                   client, writerPref, changes, wroteSinceTick>>

\* recv() takes one message of the session's channel.
SessionRecv(s) ==
    /\ spc[s] = "recv"
    /\ wake[s] > 0
    /\ wake' = [wake EXCEPT ![s] = @ - 1]
    /\ spc' = [spc EXCEPT ![s] = "write"]
    /\ UNCHANGED <<auxVars, blkVars, ioVars, barVars, consumers, content, last, acceptPc, rpc, written, client,
                   writerPref, changes, wroteSinceTick>>

NextServer ==
    \/ \E v \in BlockValues : BlockUpdate(v)
    \/ TickRender
    \/ TickWriteContent
    \/ TickLockConsumers
    \/ TickSend
    \/ TickFanoutDone
    \/ TickWait
    \/ AcceptFail
    \/ \E s \in Sessions : Accept(s)
    \/ \E s \in Sessions : ClientClose(s)
    \/ \E s \in Sessions : InboundEnd(s)
    \/ \E s \in Sessions : SessionWriteOk(s)
    \/ \E s \in Sessions : SessionWriteBlock(s)
    \/ \E s \in Sessions : SessionWriteUnblock(s)
    \/ \E s \in Sessions : SessionWriteFail(s)
    \/ \E s \in Sessions : SessionRecv(s)

SpecServer == InitServer /\ [][NextServer]_vars

\* The threads of the server are scheduled fairly: the tick loop and every
\* session thread take a step that stays possible.  Nothing is assumed of
\* the block, of connecting clients or of what a peer does: whether a write
\* blocks, and for how long, is the peer's choice.
SpecServerFair ==
    /\ SpecServer
    /\ WF_vars(TickRender)
    /\ WF_vars(TickWriteContent)
    /\ WF_vars(TickLockConsumers)
    /\ WF_vars(TickSend)
    /\ WF_vars(TickFanoutDone)
    /\ WF_vars(TickWait)
    /\ \A s \in Sessions : WF_vars(SessionWriteOk(s))
    /\ \A s \in Sessions : WF_vars(SessionWriteFail(s))
    /\ \A s \in Sessions : WF_vars(SessionRecv(s))

(***************************************************************************)
(* The readers of click events: event_handler of statusbar-rs (and of the  *)
(* older src/main.rs), and the inbound thread of a statusbar-server        *)
(* session.                                                                *)
(***************************************************************************)
\* The main loop and the server are not observed.
MainIdle ==
    /\ state = [i \in Indices |-> NoneBlock]
    /\ senders = {}
    /\ wakeQueue = 0
    /\ pc = "none"
    /\ index = 0
    /\ out = <<>>
    /\ rendered = <<>>
    /\ frame = <<>>
    /\ elapsed = FALSE
    /\ reason = "start"

ServerIdle ==
    /\ consumers = <<>>
    /\ content = ""
    /\ last = ""
    /\ acceptPc = "none"
    /\ spc = <<>>
    /\ rpc = <<>>
    /\ wake = <<>>
    /\ written = <<>>
    /\ client = <<>>
    /\ writerPref = FALSE
    /\ changes = 0
    /\ wroteSinceTick = FALSE

\* I3Event.name, an Option<String>: the string is kept as its characters.
NoName == [some |-> FALSE, chars |-> <<>>]

SomeName(c) == [some |-> TRUE, chars |-> c]

Names ==
    {NoName, SomeName(<<>>), SomeName(<<"0">>), SomeName(<<"2">>),
     SomeName(<<"3">>), SomeName(<<"9", "9">>), SomeName(<<"-", "1">>), SomeName(<<"x">>),
     SomeName(<<"+", "1">>), SomeName(<<"0", "2">>)}

\* I3Event.button.
Buttons == {1, 2}

\* A line of input: a number of leading commas and then the handshake
\* token "[", nothing, text that is not JSON, JSON that is no I3Event (no
\* button), or an I3Event object; or bytes that are not UTF-8, which
\* BufRead::lines and read_line report as an error.
Line(c, b, n, k) == [commas |-> c, body |-> b, name |-> n, button |-> k]

Lines ==
    {Line(c, "event", n, k) : c \in {0, 1}, n \in Names, k \in Buttons}
        \cup {Line(2, "event", SomeName(<<"0">>), 1)}
        \cup {Line(c, b, NoName, 0) : c \in {0, 1}, b \in {"hello", "empty"}}
        \cup {Line(0, b, NoName, 0) : b \in {"text", "shape", "undecodable"}}

Inputs == UNION {[1 .. n -> Lines] : n \in 0 .. MaxLines}

\* line == "[" || line.is_empty()
IsHello(l) == l.commas = 0 /\ l.body \in {"hello", "empty"}

KeepPrefix(l) == l

\* line.strip_prefix(',').unwrap_or(&line): one leading comma is removed.
strip_prefix(l) == IF l.commas > 0 THEN [l EXCEPT !.commas = @ - 1] ELSE l

FromStrNamed(l) == l.commas = 0 /\ l.body = "event" /\ l.name.some

\* serde_json::from_str::<I3Event>: Ok for an event object and nothing
\* before it.
from_str(l) == l.commas = 0 /\ l.body = "event"

IsDigit(c) == c \in {"0", "1", "2", "3", "4", "5", "6", "7", "8", "9"}

DigitValue(c) ==
    CASE c = "0" -> 0 [] c = "1" -> 1 [] c = "2" -> 2 [] c = "3" -> 3
      [] c = "4" -> 4 [] c = "5" -> 5 [] c = "6" -> 6 [] c = "7" -> 7
      [] c = "8" -> 8 [] c = "9" -> 9

RECURSIVE DigitsValue(_)
DigitsValue(c) ==
    IF c = <<>> THEN 0
    ELSE 10 * DigitsValue(SubSeq(c, 1, Len(c) - 1)) + DigitValue(c[Len(c)])

\* str::parse::<usize>: an optional "+" and at least one digit; -1 stands
\* for Err.  No name of the model is long enough to overflow.
parse(c) ==
    LET d == IF c # <<>> /\ c[1] = "+" THEN Tail(c) ELSE c
    IN  IF d # <<>> /\ \A k \in 1 .. Len(d) : IsDigit(d[k])
        THEN DigitsValue(d)
        ELSE -1

\* The registry of statusbar-rs built without optional features, in the
\* order of its vec!; the model keeps the first NumBlocks entries.
Registry == <<"volume", "battery", "dunst", "load", "temperature", "date">>

InRegistryInclusive(n) == n >= 0 /\ n <= NumBlocks

\* blocks.get(name): the model's registry has NumBlocks entries.
InRegistry(n) == n >= 0 /\ n < NumBlocks

\* What Block::click does on the calling thread, by block and button:
\* nothing, a send on a channel of the block, the spawn of a thread, an
\* HTTP request over the network, or a write to the block's socket under
\* the write lock of its stream.
ClickEffect(kind, button) ==
    CASE kind = "volume" ->
             IF button = 1 THEN "spawn"
             ELSE IF button \in {3, 4, 5} THEN "send" ELSE "nothing"
      [] kind = "dunst" -> IF button = 3 THEN "send" ELSE "nothing"
      [] kind = "kimai" ->
             IF button = 1 THEN "send"
             ELSE IF button \in {2, 3} THEN "http" ELSE "nothing"
      [] kind = "socket" -> "socket_write"
      [] OTHER -> "nothing"

\* The effects during which the caller waits for something outside the
\* process.
Blocking == {"http", "socket_write"}

AfterClick(kind, button) ==
    IF ClickEffect(kind, button) \in Blocking THEN "in_click" ELSE "run"

InitRouter ==
    /\ MainIdle
    /\ ServerIdle
    /\ BlkIdle
    /\ AuxIdle
    /\ input \in Inputs
    /\ rdPos = 0
    /\ rdPc = "run"
    /\ clicked = <<>>
    /\ binary \in {"statusbar-rs", "main.rs"}
    /\ served = "none"
    /\ stdout = <<>>
    /\ committer = <<"none", 0>>

\* One iteration of the for loop of event_handler.  An undecodable line
\* ends the iteration of statusbar-rs (map_while(Result::ok)) and is left
\* out by src/main.rs (flatten()).
RouterLine ==
    /\ rdPc = "run"
    /\ rdPos < Len(input)
    /\ rdPos' = rdPos + 1
    /\ LET l == input[rdPos + 1]
           e == strip_prefix(l)
           n == parse(e.name.chars)
       IN  IF l.body = "undecodable"
           THEN /\ rdPc' = IF binary = "statusbar-rs" THEN "done" ELSE "run"
                /\ clicked' = clicked
           ELSE IF IsHello(l) \/ ~from_str(e) \/ ~e.name.some \/ ~InRegistry(n)
           THEN /\ rdPc' = "run"
                /\ clicked' = clicked
           ELSE /\ rdPc' = AfterClick(Registry[n + 1], e.button)
                /\ clicked' = Append(clicked, [block |-> n, button |-> e.button,
                                               name |-> e.name])
    /\ UNCHANGED <<auxVars, blkVars, barVars, srvVars, input, binary, served, stdout, committer>>

\* stdin is at end of file: lines() yields None and event_handler returns.
RouterEof ==
    /\ rdPc = "run"
    /\ rdPos = Len(input)
    /\ rdPc' = "done"
    /\ UNCHANGED <<auxVars, blkVars, barVars, srvVars, input, rdPos, clicked, binary, served, stdout,
                   committer>>

NextRouter ==
    \/ RouterLine
    \/ RouterEof

SpecRouter == InitRouter /\ [][NextRouter]_vars

\* The block statusbar-server publishes, by its first argument; a kimai
\* block without a readable configuration has no config and no agent, and
\* its click returns at once.
ServedBlocks == {"battery", "kimai", "kimai_unconfigured"}

InitInbound ==
    /\ MainIdle
    /\ ServerIdle
    /\ BlkIdle
    /\ AuxIdle
    /\ input \in Inputs
    /\ rdPos = 0
    /\ rdPc = "run"
    /\ clicked = <<>>
    /\ binary = "statusbar-server"
    /\ served \in ServedBlocks
    /\ stdout = <<>>
    /\ committer = <<"none", 0>>

\* One iteration of the loop of a session's inbound thread: read_line,
\* then from_str of the whole line and the click of the served block.  A
\* read error ends the thread.
InboundLine ==
    /\ rdPc = "run"
    /\ rdPos < Len(input)
    /\ rdPos' = rdPos + 1
    /\ LET l == input[rdPos + 1]
       IN  IF l.body = "undecodable"
           THEN /\ rdPc' = "done"
                /\ clicked' = clicked
           ELSE IF from_str(l)
           THEN /\ rdPc' = AfterClick(served, l.button)
                /\ clicked' = Append(clicked, [block |-> 0, button |-> l.button,
                                               name |-> l.name])
           ELSE /\ rdPc' = "run"
                /\ clicked' = clicked
    /\ UNCHANGED <<auxVars, blkVars, barVars, srvVars, input, binary, served, stdout, committer>>

\* The peer has closed the connection: read_line returns Ok with an empty
\* line and the thread leaves its loop.
InboundEof ==
    /\ rdPc = "run"
    /\ rdPos = Len(input)
    /\ rdPc' = "done"
    /\ UNCHANGED <<auxVars, blkVars, barVars, srvVars, input, rdPos, clicked, binary, served, stdout,
                   committer>>

\* The request or write that click() waits for completes and click()
\* returns to the reading thread.
ClickReturn ==
    /\ rdPc = "in_click"
    /\ rdPc' = "run"
    /\ UNCHANGED <<auxVars, blkVars, barVars, srvVars, input, rdPos, clicked, binary, served, stdout,
                   committer>>

NextInbound ==
    \/ InboundLine
    \/ InboundEof
    \/ ClickReturn

SpecInbound == InitInbound /\ [][NextInbound]_vars

(***************************************************************************)
(* What the adapters print: main() of statusbar-rs (and of src/main.rs)    *)
(* from its first statement, and the loop of statusbar-waybar.  A line of  *)
(* stdout is the sequence of its tokens.                                   *)
(***************************************************************************)
\* println!("{}", json!({"version": 1, "stop_signal": .., "cont_signal": ..,
\* "click_events": true})).  The object is printed with the keys as
\* written or sorted by name, as serde_json's map type is built.
HeaderLines(b) ==
    IF b = "statusbar-rs"
    THEN {<<"{\"version\":1,\"stop_signal\":19,\"cont_signal\":18,\"click_events\":true}">>,
          <<"{\"click_events\":true,\"cont_signal\":18,\"stop_signal\":19,\"version\":1}">>}
    ELSE {<<"{\"version\":1,\"stop_signal\":10,\"cont_signal\":12,\"click_events\":true}">>,
          <<"{\"click_events\":true,\"cont_signal\":12,\"stop_signal\":10,\"version\":1}">>}

\* println!("[")
OpenLine == <<"[">>

\* serde_json::to_string(&out): the blocks, separated by commas.
RECURSIVE Items(_)
Items(o) ==
    IF o = <<>> THEN <<>>
    ELSE IF Len(o) = 1 THEN <<Serialize(o[1])>>
    ELSE <<Serialize(o[1]), ",">> \o Items(Tail(o))

FrameLineBare(o) == <<"[">> \o Items(o) \o <<"]">>

\* println!("{},", serde_json::to_string(&out).unwrap())
FrameLine(o) == <<"[">> \o Items(o) \o <<"]", ",">>

PrintIfNew(so, line) ==
    IF so # <<>> /\ so[Len(so)] = line THEN so ELSE Append(so, line)

\* println!: one more line on stdout.
println(so, line) == Append(so, line)

\* The for loop over the registry as a whole: the out Vec after the blocks
\* from index i on have been rendered.
RECURSIVE RenderFrom(_, _)
RenderFrom(i, o) ==
    IF i = NumBlocks THEN o ELSE RenderFrom(i + 1, Push(o, state[i], i))

InitStream ==
    /\ state \in [Indices -> BlockValues]
    /\ senders = {}
    /\ wakeQueue = 0
    /\ pc = "header"
    /\ index = 0
    /\ out = <<>>
    /\ rendered = <<>>
    /\ frame = <<>>
    /\ elapsed = FALSE
    /\ reason = "start"
    /\ ServerIdle
    /\ BlkIdle
    /\ AuxIdle
    /\ input = <<>>
    /\ rdPos = 0
    /\ rdPc = "none"
    /\ clicked = <<>>
    /\ binary \in {"statusbar-rs", "main.rs"}
    /\ served = "none"
    /\ stdout = <<>>
    /\ committer = <<"none", 0>>

\* The header block.
PrintHeader ==
    /\ pc = "header"
    /\ \E h \in HeaderLines(binary) : stdout' = println(stdout, h)
    /\ pc' = "open"
    /\ UNCHANGED <<auxVars, blkVars, state, senders, wakeQueue, index, out, rendered, frame, elapsed,
                   reason, srvVars, input, rdPos, rdPc, clicked, binary, served,
                   committer>>

\* The start of the infinite JSON stream; the event handler thread, which
\* prints to stderr only, is spawned next and the loop is entered.
PrintOpen ==
    /\ pc = "open"
    /\ stdout' = println(stdout, OpenLine)
    /\ rdPc' = "run"
    /\ pc' = "render"
    /\ UNCHANGED <<auxVars, blkVars, state, senders, wakeQueue, index, out, rendered, frame, elapsed,
                   reason, srvVars, input, rdPos, clicked, binary, served, committer>>

\* One pass of the loop up to its wait: every block is rendered, the frame
\* is printed and out is cleared.  The model watches the first MaxOut lines.
StreamTick ==
    /\ pc = "render"
    /\ Len(stdout) < MaxOut
    /\ frame' = RenderFrom(0, <<>>)
    /\ stdout' = println(stdout, FrameLine(frame'))
    /\ out' = <<>>
    /\ pc' = "wait"
    /\ UNCHANGED <<auxVars, blkVars, state, senders, wakeQueue, index, rendered, elapsed, reason,
                   srvVars, input, rdPos, rdPc, clicked, binary, served, committer>>

\* recv_timeout returns, with a wake or at its deadline.
StreamWait ==
    /\ pc = "wait"
    /\ pc' = "render"
    /\ UNCHANGED <<auxVars, blkVars, state, senders, wakeQueue, index, out, rendered, frame, elapsed,
                   reason, srvVars, ioVars>>

NextStream ==
    \/ PrintHeader
    \/ PrintOpen
    \/ StreamTick
    \/ StreamWait
    \/ \E i \in Indices, v \in BlockValues : ProducerChange(i, v)

SpecStream == InitStream /\ [][NextStream]_vars

\* What the block of statusbar-waybar can render: nothing, or a block
\* without color and tooltip; two of them differ in the name only.
WaybarValues == {NoneBlock, I3Block("", ""), I3Block("x", ""), I3Block("x", "9")}

\* The line of a tick: json!({"text": .., "tooltip": ..}) of full_text and
\* the absent tooltip, or the fixed object for None.
WaybarFormat(b) ==
    IF b.some
    THEN "{\"text\":\"" \o b.full_text \o "\",\"tooltip\":null}"
    ELSE "{\"text\":\"\"}"

LastDiffersAlways(l, o) == TRUE

\* last != out
LastDiffers(l, o) == l # o

InitWaybar ==
    /\ state \in [Indices -> WaybarValues]
    /\ \A i \in Indices : i # 0 => state[i] = NoneBlock
    /\ senders = {}
    /\ wakeQueue = 0
    /\ pc = "render"
    /\ index = 0
    /\ out = ""
    /\ rendered = <<>>
    /\ frame = <<>>
    /\ elapsed = FALSE
    /\ reason = "start"
    /\ ServerIdle
    /\ BlkIdle
    /\ AuxIdle
    /\ input = <<>>
    /\ rdPos = 0
    /\ rdPc = "none"
    /\ clicked = <<>>
    /\ binary = "statusbar-waybar"
    /\ served = "none"
    /\ stdout = <<>>
    /\ committer = <<"none", 0>>

\* One pass of the loop up to its wait: the block is rendered and
\* formatted, and the line is printed and kept in last when it differs
\* from last.  frame is what this pass printed.
WaybarTick ==
    /\ pc = "render"
    /\ Len(stdout) < MaxOut
    /\ out' = WaybarFormat(state[0])
    /\ IF LastDiffers(last, out')
       THEN /\ stdout' = println(stdout, <<out'>>)
            /\ last' = out'
            /\ frame' = <<out'>>
       ELSE /\ stdout' = stdout
            /\ last' = last
            /\ frame' = <<>>
    /\ pc' = "wait"
    /\ UNCHANGED <<auxVars, blkVars, state, senders, wakeQueue, index, rendered, elapsed, reason,
                   consumers, content, acceptPc, spc, rpc, wake, written, client,
                   writerPref, changes, wroteSinceTick, input, rdPos, rdPc, clicked,
                   binary, served, committer>>

NextWaybar ==
    \/ WaybarTick
    \/ StreamWait
    \/ \E v \in WaybarValues : ProducerChange(0, v)

SpecWaybar == InitWaybar /\ [][NextWaybar]_vars

(***************************************************************************)
(* The background tasks of the producers of statusbar-rs that write state  *)
(* read by render().                                                       *)
(***************************************************************************)
\* The supervisor thread of the volume block, the listener of the dunst
\* block, the InterfacesAdded and InterfacesRemoved threads and the
\* percentage refresh thread of the bluetooth part of the battery block,
\* and the HID++ device poll of the battery block.
Tasks ==
    {"volume_events", "dunst_listener", "bluetooth_added", "bluetooth_removed",
     "bluetooth_update", "hidpp_poll"}

\* The block a task belongs to, by its place in the registry.
TaskBlock(t) ==
    CASE t = "volume_events" -> 0
      [] t = "dunst_listener" -> 2
      [] OTHER -> 1

\* Whether the task sends () on the wake channel after its write.
Notifies(t) ==
    t \in {"volume_events", "dunst_listener", "bluetooth_added", "bluetooth_removed"}

\* A task commits state that changes what its block renders and, if it
\* does so at all, notifies the wake channel.  The dunst listener runs
\* only while its thread, and with it its Sender, is alive; the other
\* tasks of this list live as long as the process.
TaskCommit(t, v) ==
    /\ t = "dunst_listener" => "dunst" \in senders
    /\ state[TaskBlock(t)] # v
    /\ state' = [state EXCEPT ![TaskBlock(t)] = v]
    /\ IF Notifies(t)
       THEN wakeQueue < MaxQueue /\ wakeQueue' = wakeQueue + 1
       ELSE wakeQueue' = wakeQueue
    /\ committer' = <<t, 1 - committer[2]>>
    /\ UNCHANGED <<auxVars, blkVars, senders, pc, index, out, rendered, frame, elapsed, reason, srvVars,
                   input, rdPos, rdPc, clicked, binary, served, stdout>>

NextTasks ==
    \/ NextBar
    \/ \E t \in Tasks, v \in RenderValues : TaskCommit(t, v)

SpecTasks == InitBar /\ [][NextTasks]_vars

(***************************************************************************)
(* BatteryBlock: render() against the threads of BluetoothBattery and      *)
(* Hidpp.  `holder` is the thread that has `devices.write()` of            *)
(* BluetoothBattery; every other guard of the block (devices.read() in     *)
(* percentages(), Hidpp's devices.read()/write(), the last_*_poll locks)   *)
(* is taken and dropped within one statement that does no I/O.  One        *)
(* update() thread and one poll_devices() thread are followed at a time.   *)
(***************************************************************************)
BatteryThreads ==
    {"render", "bluetooth_update", "bluetooth_added", "bluetooth_removed", "hidpp_poll"}

\* The positions in which a thread waits for an answer of the bus or of a
\* HID device.
IoPositions == {"dbus", "icon", "hid"}

InitBattery ==
    /\ MainIdle
    /\ ServerIdle
    /\ IoIdle
    /\ AuxIdle
    /\ tpc = [t \in BatteryThreads |-> IF t = "render" THEN "percentages" ELSE "idle"]
    /\ holder = "none"
    /\ devices \in 0 .. MaxDevices
    /\ todo = 0
    /\ connected = FALSE
    /\ stream = "None"
    /\ peer = 0
    /\ available = FALSE
    /\ connects = 0
    /\ committed = <<>>
    /\ announced = <<>>
    /\ owed = <<>>
    /\ shown = <<>>

\* bluetooth.percentages(): devices.read() waits for the writer.
RenderPercentages ==
    /\ tpc["render"] = "percentages"
    /\ holder = "none"
    /\ tpc' = [tpc EXCEPT !["render"] = "poll_bluetooth"]
    /\ UNCHANGED <<auxVars, barVars, srvVars, ioVars, holder, devices, todo, connected, stream, peer,
                   committed, announced, owed, shown, available, connects>>

\* Every two minutes render() calls bluetooth.update(), which spawns the
\* thread and returns.
RenderPollBluetooth ==
    /\ tpc["render"] = "poll_bluetooth"
    /\ \E due \in BOOLEAN :
           tpc' = [tpc EXCEPT !["render"] = "hidpp_devices",
                              !["bluetooth_update"] =
                                  IF due /\ @ = "idle" THEN "lock" ELSE @]
    /\ UNCHANGED <<auxVars, barVars, srvVars, ioVars, holder, devices, todo, connected, stream, peer,
                   committed, announced, owed, shown, available, connects>>

\* hidpp_devices.devices(), then the two polls of Hidpp, each in a thread
\* of its own; render() returns, the tick loop takes one wake or its
\* timeout and comes back to render().
RenderHidpp ==
    /\ tpc["render"] = "hidpp_devices"
    /\ \E due \in BOOLEAN :
           tpc' = [tpc EXCEPT !["render"] = "percentages",
                              !["hidpp_poll"] =
                                  IF due /\ @ = "idle" THEN "hid" ELSE @]
    /\ wakeQueue' = IF wakeQueue > 0 THEN wakeQueue - 1 ELSE 0
    /\ UNCHANGED <<auxVars, state, senders, pc, index, out, rendered, frame, elapsed, reason, srvVars, ioVars, holder, devices, todo, connected, stream, peer,
                   committed, announced, owed, shown, available, connects>>

\* update(): `for (path, dev) in &mut *devices.write().unwrap()`.
UpdateLock ==
    /\ tpc["bluetooth_update"] = "lock"
    /\ holder = "none"
    /\ holder' = "bluetooth_update"
    /\ todo' = devices
    /\ tpc' = [tpc EXCEPT !["bluetooth_update"] = "iterate"]
    /\ UNCHANGED <<auxVars, barVars, srvVars, ioVars, devices, connected, stream, peer,
                   committed, announced, owed, shown, available, connects>>

\* The next entry of the map: the thread asks the bus for its Percentage;
\* after the last entry the guard is dropped and the thread ends.
UpdateNext ==
    /\ tpc["bluetooth_update"] = "iterate"
    /\ IF todo > 0
       THEN /\ tpc' = [tpc EXCEPT !["bluetooth_update"] = "dbus"]
            /\ holder' = holder
       ELSE /\ tpc' = [tpc EXCEPT !["bluetooth_update"] = "idle"]
            /\ holder' = "none"
    /\ UNCHANGED <<auxVars, barVars, srvVars, ioVars, devices, todo, connected, stream, peer,
                   committed, announced, owed, shown, available, connects>>

\* The bus answers (or Proxy::new fails): dev.percentage is set.
UpdateAnswer ==
    /\ tpc["bluetooth_update"] = "dbus"
    /\ todo' = todo - 1
    /\ tpc' = [tpc EXCEPT !["bluetooth_update"] = "iterate"]
    /\ UNCHANGED <<auxVars, barVars, srvVars, ioVars, holder, devices, connected, stream, peer,
                   committed, announced, owed, shown, available, connects>>

\* InterfacesAdded: the thread asks for the Icon before it takes the lock.
AddedSignal ==
    /\ tpc["bluetooth_added"] = "idle"
    /\ devices < MaxDevices
    /\ tpc' = [tpc EXCEPT !["bluetooth_added"] = "icon"]
    /\ UNCHANGED <<auxVars, barVars, srvVars, ioVars, holder, devices, todo, connected, stream, peer,
                   committed, announced, owed, shown, available, connects>>

AddedIcon ==
    /\ tpc["bluetooth_added"] = "icon"
    /\ tpc' = [tpc EXCEPT !["bluetooth_added"] = "insert"]
    /\ UNCHANGED <<auxVars, barVars, srvVars, ioVars, holder, devices, todo, connected, stream, peer,
                   committed, announced, owed, shown, available, connects>>

\* devs.write().unwrap().insert(..); sender.send(()).
AddedInsert ==
    /\ tpc["bluetooth_added"] = "insert"
    /\ holder = "none"
    /\ wakeQueue < MaxQueue
    /\ devices' = devices + 1
    /\ wakeQueue' = wakeQueue + 1
    /\ tpc' = [tpc EXCEPT !["bluetooth_added"] = "idle"]
    /\ UNCHANGED <<auxVars, state, senders, pc, index, out, rendered, frame, elapsed, reason, srvVars, ioVars, holder, todo, connected, stream, peer,
                   committed, announced, owed, shown, available, connects>>

\* InterfacesRemoved: devs.write().unwrap().remove(..); sender.send(()).
RemovedSignal ==
    /\ tpc["bluetooth_removed"] = "idle"
    /\ devices > 0
    /\ tpc' = [tpc EXCEPT !["bluetooth_removed"] = "remove"]
    /\ UNCHANGED <<auxVars, barVars, srvVars, ioVars, holder, devices, todo, connected, stream, peer,
                   committed, announced, owed, shown, available, connects>>

RemovedRemove ==
    /\ tpc["bluetooth_removed"] = "remove"
    /\ holder = "none"
    /\ wakeQueue < MaxQueue
    /\ devices' = IF devices > 0 THEN devices - 1 ELSE 0
    /\ wakeQueue' = wakeQueue + 1
    /\ tpc' = [tpc EXCEPT !["bluetooth_removed"] = "idle"]
    /\ UNCHANGED <<auxVars, state, senders, pc, index, out, rendered, frame, elapsed, reason, srvVars, ioVars, holder, todo, connected, stream, peer,
                   committed, announced, owed, shown, available, connects>>

\* poll_devices(): the HID devices are asked under the `inner` guard,
\* which render() never takes; the result is stored with devices.write().
HidppPoll ==
    /\ tpc["hidpp_poll"] = "hid"
    /\ tpc' = [tpc EXCEPT !["hidpp_poll"] = "idle"]
    /\ UNCHANGED <<auxVars, barVars, srvVars, ioVars, holder, devices, todo, connected, stream, peer,
                   committed, announced, owed, shown, available, connects>>

NextBattery ==
    \/ RenderPercentages
    \/ RenderPollBluetooth
    \/ RenderHidpp
    \/ UpdateLock
    \/ UpdateNext
    \/ UpdateAnswer
    \/ AddedSignal
    \/ AddedIcon
    \/ AddedInsert
    \/ RemovedSignal
    \/ RemovedRemove
    \/ HidppPoll

SpecBattery == InitBattery /\ [][NextBattery]_vars

(***************************************************************************)
(* SocketBlock under the waybar adapter: the reader thread of new(), the   *)
(* tick loop calling render(), and the signal thread calling click().      *)
(* A block received from the peer is known by the number of the           *)
(* connection it came on, 0 being the default content.                     *)
(***************************************************************************)
SocketThreads == {"main", "socket_reader", "click"}

\* What render() returns for None.
NoBlock == 0 - 1

\* The two statements between a successful connect and the read loop.
ConnectStepsSwapped == <<"set_connected", "store">>

ConnectSteps == <<"store", "set_connected">>

\* Where the reader thread goes after one of the two statements.
AfterConnectStep(p) == IF p = ConnectSteps[1] THEN ConnectSteps[2] ELSE "read"

SocketRenderDefault(c, k) == IF ~c THEN NoBlock ELSE 0

\* render(): None unless connected, else a clone of the content.
SocketRender(c, k) == IF ~c THEN NoBlock ELSE k

InitSocket ==
    /\ MainIdle
    /\ ServerIdle
    /\ IoIdle
    /\ AuxIdle
    /\ tpc = [t \in SocketThreads |->
                 CASE t = "main" -> "render"
                   [] t = "socket_reader" -> "connect"
                   [] OTHER -> "idle"]
    /\ holder = "none"
    /\ devices = 0
    /\ todo = 0
    /\ connected = FALSE
    /\ stream = "None"
    /\ peer = 0
    /\ available \in BOOLEAN
    /\ connects = 0
    /\ committed = [t \in {"socket_reader"} |-> 0]
    /\ announced = <<>>
    /\ owed = <<>>
    /\ shown = [t \in {"socket_reader"} |-> NoBlock]

\* UnixStream::connect succeeds if a server listens on the path; on
\* failure connected.swap(false).
ReaderConnect ==
    /\ tpc["socket_reader"] = "connect"
    /\ IF available
       THEN /\ tpc' = [tpc EXCEPT !["socket_reader"] = ConnectSteps[1]]
            /\ connected' = connected
            /\ connects' = IF connects < MaxUpdates THEN connects + 1 ELSE connects
       ELSE /\ tpc' = [tpc EXCEPT !["socket_reader"] = "drop"]
            /\ connected' = FALSE
            /\ connects' = connects
    /\ UNCHANGED <<auxVars, barVars, srvVars, ioVars, holder, devices, todo, stream, peer,
                   committed, announced, owed, shown, available>>

\* *stream3.write().unwrap() = Some(stream.try_clone().unwrap()): the
\* clone is made first, and the thread panics if it fails.
ReaderStore ==
    /\ tpc["socket_reader"] = "store"
    /\ \E ok \in BOOLEAN :
           IF ok
           THEN /\ holder = "none"
                /\ stream' = "Some"
                /\ tpc' = [tpc EXCEPT !["socket_reader"] = AfterConnectStep("store")]
           ELSE /\ stream' = stream
                /\ tpc' = [tpc EXCEPT !["socket_reader"] = "panicked"]
    /\ UNCHANGED <<auxVars, barVars, srvVars, ioVars, holder, devices, todo, connected, peer,
                   committed, announced, owed, shown, available, connects>>

\* connected2.swap(true, Ordering::Relaxed).
ReaderSetConnected ==
    /\ tpc["socket_reader"] = "set_connected"
    /\ connected' = TRUE
    /\ tpc' = [tpc EXCEPT !["socket_reader"] = AfterConnectStep("set_connected")]
    /\ UNCHANGED <<auxVars, barVars, srvVars, ioVars, holder, devices, todo, stream, peer,
                   committed, announced, owed, shown, available, connects>>

\* reader.read_line and serde_json::from_str: the block is stored in the
\* content; an invalid block (the empty line of an EOF included) or a
\* read error clears connected.
ReaderRead ==
    /\ tpc["socket_reader"] = "read"
    /\ \E r \in {"block", "invalid", "error"} :
           IF r = "block"
           THEN /\ committed' = [committed EXCEPT !["socket_reader"] = connects]
                /\ tpc' = [tpc EXCEPT !["socket_reader"] = "send"]
                /\ connected' = connected
           ELSE /\ committed' = committed
                /\ tpc' = [tpc EXCEPT !["socket_reader"] = "drop"]
                /\ connected' = FALSE
    /\ UNCHANGED <<auxVars, barVars, srvVars, ioVars, holder, devices, todo, stream, peer,
                   announced, owed, shown, available, connects>>

\* timer_cancel.send(()).
ReaderSend ==
    /\ tpc["socket_reader"] = "send"
    /\ wakeQueue < MaxQueue
    /\ wakeQueue' = wakeQueue + 1
    /\ tpc' = [tpc EXCEPT !["socket_reader"] = "read"]
    /\ UNCHANGED <<auxVars, state, senders, pc, index, out, rendered, frame, elapsed, reason,
                   srvVars, ioVars, blkVarsButTpc>>

\* *stream3.write().unwrap() = None.
ReaderDrop ==
    /\ tpc["socket_reader"] = "drop"
    /\ holder = "none"
    /\ stream' = "None"
    /\ tpc' = [tpc EXCEPT !["socket_reader"] = "sleep"]
    /\ UNCHANGED <<auxVars, barVars, srvVars, ioVars, holder, devices, todo, connected, peer,
                   committed, announced, owed, shown, available, connects>>

\* std::thread::sleep, then the next round of the outer loop.
ReaderSleep ==
    /\ tpc["socket_reader"] = "sleep"
    /\ tpc' = [tpc EXCEPT !["socket_reader"] = "connect"]
    /\ UNCHANGED <<auxVars, barVars, srvVars, ioVars, blkVarsButTpc>>

\* The adapter's loop calls render().
SocketTickRender ==
    /\ tpc["main"] = "render"
    /\ shown' = [shown EXCEPT !["socket_reader"] =
                     SocketRender(connected, committed["socket_reader"])]
    /\ tpc' = [tpc EXCEPT !["main"] = "wait"]
    /\ UNCHANGED <<auxVars, barVars, srvVars, ioVars, holder, devices, todo, connected, stream, peer,
                   committed, announced, owed, available, connects>>

\* recv.recv_timeout(sleep): one wake is taken, or the timeout passes.
SocketTickWait ==
    /\ tpc["main"] = "wait"
    /\ wakeQueue' = IF wakeQueue > 0 THEN wakeQueue - 1 ELSE 0
    /\ tpc' = [tpc EXCEPT !["main"] = "render"]
    /\ UNCHANGED <<auxVars, state, senders, pc, index, out, rendered, frame, elapsed, reason,
                   srvVars, ioVars, blkVarsButTpc>>

\* click(): returns at once unless connected.
ClickLoad ==
    /\ tpc["click"] = "idle"
    /\ connected => peer < MaxUpdates
    /\ tpc' = [tpc EXCEPT !["click"] = IF ~connected THEN "idle" ELSE "lock"]
    /\ UNCHANGED <<auxVars, barVars, srvVars, ioVars, blkVarsButTpc>>

\* let mut stream = self.stream.write().unwrap().
ClickLock ==
    /\ tpc["click"] = "lock"
    /\ holder = "none"
    /\ holder' = "click"
    /\ tpc' = [tpc EXCEPT !["click"] = "write"]
    /\ UNCHANGED <<auxVars, barVars, srvVars, ioVars, devices, todo, connected, stream, peer,
                   committed, announced, owed, shown, available, connects>>

\* stream.as_mut().map(..): the event and a newline are written if the
\* stream is there; the guard is dropped on return.
ClickWrite ==
    /\ tpc["click"] = "write"
    /\ peer' = IF stream = "Some" THEN peer + 1 ELSE peer
    /\ holder' = "none"
    /\ tpc' = [tpc EXCEPT !["click"] = "idle"]
    /\ UNCHANGED <<auxVars, barVars, srvVars, ioVars, devices, todo, connected, stream,
                   committed, announced, owed, shown, available, connects>>

\* A server starts to listen on the socket path, or the server goes away.
PeerStart ==
    /\ ~available
    /\ available' = TRUE
    /\ UNCHANGED <<auxVars, barVars, srvVars, ioVars, tpc, holder, devices, todo, connected, stream,
                   peer, connects, committed, announced, owed, shown>>

PeerStop ==
    /\ available
    /\ available' = FALSE
    /\ UNCHANGED <<auxVars, barVars, srvVars, ioVars, tpc, holder, devices, todo, connected, stream,
                   peer, connects, committed, announced, owed, shown>>

NextSocket ==
    \/ PeerStart
    \/ PeerStop
    \/ ReaderConnect
    \/ ReaderStore
    \/ ReaderSetConnected
    \/ ReaderRead
    \/ ReaderSend
    \/ ReaderDrop
    \/ ReaderSleep
    \/ SocketTickRender
    \/ SocketTickWait
    \/ ClickLoad
    \/ ClickLock
    \/ ClickWrite

SpecSocket == InitSocket /\ [][NextSocket]_vars

\* Every thread of the block that can take a step takes one in the end;
\* nothing is asked of the server.
SpecSocketFair ==
    /\ SpecSocket
    /\ WF_vars(ReaderConnect)
    /\ WF_vars(ReaderStore)
    /\ WF_vars(ReaderSetConnected)
    /\ WF_vars(ReaderRead)
    /\ WF_vars(ReaderSend)
    /\ WF_vars(ReaderDrop)
    /\ WF_vars(ReaderSleep)
    /\ WF_vars(SocketTickRender)
    /\ WF_vars(SocketTickWait)
    /\ WF_vars(ClickLock)
    /\ WF_vars(ClickWrite)

(***************************************************************************)
(* The background tasks that notify the wake channel, against a tick loop  *)
(* that renders block by block and then waits.  An update is known by the  *)
(* task that makes it and its number; each () in the channel carries the   *)
(* update it was sent for.  The socket producer runs under the adapter,    *)
(* whose loop has the same shape with a single block.                      *)
(***************************************************************************)
NotifyingTasks == {t \in Tasks : Notifies(t)} \cup {"socket_reader"}

ProducerThreads == NotifyingTasks \cup {"main"}

\* The block whose render() reads what the task writes.
ProducerBlock(t) == IF t = "socket_reader" THEN 0 ELSE TaskBlock(t)

\* What a task does for one update, in order.
StepsSendFirst == <<"send", "commit">>

Steps == <<"commit", "send">>

\* Where a task goes after one of the two steps.
AfterStep(p) == IF p = Steps[1] THEN Steps[2] ELSE "idle"

\* The number of the update a task is sending the notification of.
Sending(t) == IF Steps[1] = "commit" THEN committed[t] ELSE committed[t] + 1

RECURSIVE Begun(_)
\* Updates begun so far by the tasks of T.
Begun(T) ==
    IF T = {}
    THEN 0
    ELSE LET t == CHOOSE x \in T : TRUE
         IN  Begun(T \ {t})
             + (IF tpc[t] = "idle" \/ (tpc[t] = "send" /\ Steps[1] = "commit")
                THEN committed[t]
                ELSE committed[t] + 1)

InitProducer ==
    /\ MainIdle
    /\ ServerIdle
    /\ IoIdle
    /\ AuxIdle
    /\ tpc = [t \in ProducerThreads |-> IF t = "main" THEN "render" ELSE "idle"]
    /\ holder = "none"
    /\ devices = 0
    /\ todo = 0
    /\ connected = FALSE
    /\ stream = "None"
    /\ peer = 0
    /\ available = FALSE
    /\ connects = 0
    /\ committed = [t \in NotifyingTasks |-> 0]
    /\ announced = <<>>
    /\ owed = [t \in NotifyingTasks |-> 0]
    /\ shown = [t \in NotifyingTasks |-> 0]

\* An event reaches the task: a volume change, a signal of the bus, a
\* line on the socket.
TaskEvent(t) ==
    /\ tpc[t] = "idle"
    /\ Begun(NotifyingTasks) < MaxUpdates
    /\ tpc' = [tpc EXCEPT ![t] = Steps[1]]
    /\ UNCHANGED <<auxVars, barVars, srvVars, ioVars, blkVarsButTpc>>

\* The write of the new state under the producer's lock.
TaskWrite(t) ==
    /\ tpc[t] = "commit"
    /\ committed' = [committed EXCEPT ![t] = @ + 1]
    /\ tpc' = [tpc EXCEPT ![t] = AfterStep("commit")]
    /\ UNCHANGED <<auxVars, barVars, srvVars, ioVars, holder, devices, todo, connected, stream, peer,
                   announced, owed, shown, available, connects>>

\* send(()) on the wake channel.
TaskSend(t) ==
    /\ tpc[t] = "send"
    /\ Len(announced) < MaxQueue
    /\ announced' = Append(announced, <<t, Sending(t)>>)
    /\ wakeQueue' = wakeQueue + 1
    /\ tpc' = [tpc EXCEPT ![t] = AfterStep("send")]
    /\ UNCHANGED <<auxVars, state, senders, pc, index, out, rendered, frame, elapsed, reason,
                   srvVars, ioVars, holder, devices, todo, connected, stream, peer,
                   committed, owed, shown, available, connects>>

\* The tick loop calls render() of the block at `index`, which reads the
\* producer's state under its lock.
ProducerTickRender ==
    /\ tpc["main"] = "render"
    /\ shown' = [t \in NotifyingTasks |->
                     IF ProducerBlock(t) = index THEN committed[t] ELSE shown[t]]
    /\ index' = index + 1
    /\ tpc' = [tpc EXCEPT !["main"] = IF index + 1 = NumBlocks THEN "wait" ELSE "render"]
    /\ UNCHANGED <<auxVars, state, senders, wakeQueue, pc, out, rendered, frame, elapsed, reason,
                   srvVars, ioVars, holder, devices, todo, connected, stream, peer,
                   committed, announced, owed, available, connects>>

\* recv.recv_timeout(sleep): the oldest () is taken, or the timeout passes
\* on an empty channel.
ProducerTickWait ==
    /\ tpc["main"] = "wait"
    /\ IF announced # <<>>
       THEN /\ announced' = Tail(announced)
            /\ wakeQueue' = wakeQueue - 1
            /\ owed' = [owed EXCEPT ![Head(announced)[1]] =
                            IF Head(announced)[2] > @ THEN Head(announced)[2] ELSE @]
       ELSE UNCHANGED <<auxVars, announced, wakeQueue, owed, available, connects>>
    /\ index' = 0
    /\ tpc' = [tpc EXCEPT !["main"] = "render"]
    /\ UNCHANGED <<auxVars, state, senders, pc, out, rendered, frame, elapsed, reason,
                   srvVars, ioVars, holder, devices, todo, connected, stream, peer,
                   committed, shown, available, connects>>

NextProducer ==
    \/ \E t \in NotifyingTasks : TaskEvent(t)
    \/ \E t \in NotifyingTasks : TaskWrite(t)
    \/ \E t \in NotifyingTasks : TaskSend(t)
    \/ ProducerTickRender
    \/ ProducerTickWait

SpecProducer == InitProducer /\ [][NextProducer]_vars

(***************************************************************************)
(* kimai_block.rs: seconds_to_timestamp.  Texts are sequences of           *)
(* characters.                                                             *)
(***************************************************************************)
\* i64 `/` and `%`: the quotient is truncated toward zero and the
\* remainder has the sign of the dividend.
div(a, b) == IF a >= 0 THEN a \div b ELSE 0 - ((0 - a) \div b)

rem(a, b) == a - b * div(a, b)

RECURSIVE Digits(_)
\* The decimal digits of a natural number.
Digits(n) == IF n < 10 THEN <<Digit(n)>> ELSE Digits(n \div 10) \o <<Digit(n % 10)>>

\* Display of an i64.
Display(n) == IF n < 0 THEN <<"-">> \o Digits(0 - n) ELSE Digits(n)

\* {:0>2}: right-aligned in a field of two, filled with "0"; a longer
\* text is not cut.
Pad2(t) == IF Len(t) < 2 THEN <<"0">> \o t ELSE t

seconds_to_timestamp_no_carry(seconds) ==
    LET hours == div(div(seconds, 60), 60)
        minutes == rem(div(seconds, 60), 60) + (IF rem(seconds, 60) > 0 THEN 1 ELSE 0)
    IN  Display(hours) \o <<":">> \o Pad2(Display(minutes))

seconds_to_timestamp(seconds) ==
    LET hours0 == div(div(seconds, 60), 60)
        minutes0 == rem(div(seconds, 60), 60)
        minutes1 == IF rem(seconds, 60) > 0 THEN minutes0 + 1 ELSE minutes0
        hours == IF minutes1 = 60 THEN hours0 + 1 ELSE hours0
        minutes == IF minutes1 = 60 THEN 0 ELSE minutes1
    IN  Display(hours) \o <<":">> \o Pad2(Display(minutes))

InitTimestamp ==
    /\ MainIdle
    /\ ServerIdle
    /\ IoIdle
    /\ BlkIdle
    /\ kimai = [pc |-> "none"]
    /\ pulse = [pc |-> "none"]
    /\ \E s \in (0 - 130) .. MaxSeconds : stamp = [seconds |-> s, text |-> <<>>]

\* render() formats a number of seconds.
Format ==
    /\ stamp.text = <<>>
    /\ stamp' = [stamp EXCEPT !.text = seconds_to_timestamp(stamp.seconds)]
    /\ UNCHANGED <<barVars, srvVars, ioVars, blkVars, kimai, pulse>>

NextTimestamp == Format

SpecTimestamp == InitTimestamp /\ [][NextTimestamp]_vars

(***************************************************************************)
(* KimaiBlock: request_thread, render() and click().  `kimai` holds        *)
(*   configured: whether the config file gave a URL and a token            *)
(*   state     : current_state                                            *)
(*   pc        : position of request_thread                                *)
(*   queue     : messages in the timeout channel                           *)
(*   notify    : cfg.notify_daily_hours, NoThreshold for None              *)
(*   dbus      : whether the notification proxy could be made              *)
(*   notified  : the local of request_thread                               *)
(*   hours, active: the last sample                                        *)
(*   fetches   : requests made so far                                      *)
(*   successes : whether a request was answered and decoded                *)
(*   sampleSent: whether the last sample sent a notification               *)
(*   sinceBelow: notifications sent since the last sample below the        *)
(*               threshold, up to 2                                        *)
(*   rendered  : what render() returned last                               *)
(***************************************************************************)
NoThreshold == 0 - 1

\* What request_thread does after it has stored CurrentState::Error.
AfterErrorRetry == "wait"

AfterError == "exited"

\* The else-if branch of the threshold check.
ReachedAlways(notify, hours, active, notified) ==
    notify # NoThreshold /\ hours >= notify /\ active

Reached(notify, hours, active, notified) ==
    notify # NoThreshold /\ ~(hours < notify) /\ hours >= notify /\ ~notified /\ active

\* `notified` after the threshold check.
NotifiedAfter(notify, hours, active, notified) ==
    IF notify = NoThreshold THEN notified
    ELSE IF hours < notify THEN FALSE
    ELSE IF Reached(notify, hours, active, notified) THEN TRUE
    ELSE notified

\* render().
KimaiRenderResult(st) ==
    CASE st = "NoData" -> "None"
      [] st = "Error" -> "ERROR"
      [] OTHER -> "duration"

InitKimai ==
    /\ MainIdle
    /\ ServerIdle
    /\ IoIdle
    /\ BlkIdle
    /\ pulse = [pc |-> "none"]
    /\ stamp = [seconds |-> 0, text |-> <<>>]
    /\ \E c \in BOOLEAN, n \in {NoThreshold} \cup (0 .. MaxHours), d \in BOOLEAN :
           kimai = [configured |-> c,
                    state |-> "NoData",
                    pc |-> IF c THEN "call" ELSE "unspawned",
                    queue |-> 0,
                    notify |-> n,
                    dbus |-> d,
                    notified |-> FALSE,
                    hours |-> 0,
                    active |-> FALSE,
                    fetches |-> 0,
                    successes |-> FALSE,
                    sampleSent |-> FALSE,
                    sinceBelow |-> 0,
                    rendered |-> "None"]

\* http_agent.get(..).call(): on Err the state becomes Error and the
\* thread returns.
KimaiCall ==
    /\ kimai.pc = "call"
    /\ kimai.fetches < MaxFetches
    /\ \E ok \in BOOLEAN :
           kimai' = IF ok
                    THEN [kimai EXCEPT !.pc = "decode", !.fetches = @ + 1]
                    ELSE [kimai EXCEPT !.pc = AfterError, !.fetches = @ + 1,
                                       !.state = "Error"]
    /\ UNCHANGED <<barVars, srvVars, ioVars, blkVars, pulse, stamp>>

\* read_json: on Err as above; else the sample is stored, the threshold
\* is checked and a notification sent if it is reached and the proxy is
\* there.
KimaiDecode ==
    /\ kimai.pc = "decode"
    /\ \E ok \in BOOLEAN, h \in 0 .. MaxHours, a \in BOOLEAN :
           kimai' =
               IF ok
               THEN LET r == Reached(kimai.notify, h, a, kimai.notified)
                        sent == r /\ kimai.dbus
                        below == kimai.notify # NoThreshold /\ h < kimai.notify
                        base == IF below THEN 0 ELSE kimai.sinceBelow
                    IN  [kimai EXCEPT
                             !.pc = "wait",
                             !.state = "DurationAvailable",
                             !.successes = TRUE,
                             !.hours = h,
                             !.active = a,
                             !.notified = NotifiedAfter(kimai.notify, h, a, kimai.notified),
                             !.sampleSent = sent,
                             !.sinceBelow = IF sent /\ base < 2 THEN base + 1 ELSE base]
               ELSE [kimai EXCEPT !.pc = AfterError, !.state = "Error"]
    /\ UNCHANGED <<barVars, srvVars, ioVars, blkVars, pulse, stamp>>

\* timeout_recv.recv_timeout(sleep): one message is taken, or the 300
\* seconds pass.
KimaiWait ==
    /\ kimai.pc = "wait"
    /\ kimai' = [kimai EXCEPT !.pc = "call",
                              !.queue = IF @ > 0 THEN @ - 1 ELSE 0]
    /\ UNCHANGED <<barVars, srvVars, ioVars, blkVars, pulse, stamp>>

\* click(): without a config it returns; buttons 1 to 3 end with
\* timeout_send.send(()), which fails once the receiver is dropped with
\* the thread.
KimaiClick(button) ==
    /\ kimai' = IF kimai.configured /\ button \in 1 .. 3
                   /\ kimai.pc \notin {"exited", "unspawned"}
                   /\ kimai.queue < MaxQueue
                THEN [kimai EXCEPT !.queue = @ + 1]
                ELSE kimai
    /\ UNCHANGED <<barVars, srvVars, ioVars, blkVars, pulse, stamp>>

\* The tick loop calls render().
KimaiRender ==
    /\ kimai' = [kimai EXCEPT !.rendered = KimaiRenderResult(kimai.state)]
    /\ UNCHANGED <<barVars, srvVars, ioVars, blkVars, pulse, stamp>>

NextKimai ==
    \/ KimaiCall
    \/ KimaiDecode
    \/ KimaiWait
    \/ \E button \in 1 .. 4 : KimaiClick(button)
    \/ KimaiRender

SpecKimai == InitKimai /\ [][NextKimai]_vars

(***************************************************************************)
(* VolumeBlock: the supervisor thread of new(), pulse_thread with its      *)
(* command thread, and click().  `pulse` holds                             *)
(*   server  : whether the audio server is running                         *)
(*   thread  : position of pulse_thread                                    *)
(*   events  : the PulseEvent channel to the supervisor                    *)
(*   cmd     : position of the command thread of the current pulse_thread  *)
(*   commands: the PulseCommand channel of the block's current sender      *)
(*   volume, muted, sink, raw: the State of pulse_thread; sink and raw     *)
(*             tell whether default_sink_index and raw_volume are Some     *)
(*   block   : the state render() reads, <<>> for None or <<volume, muted>> *)
(***************************************************************************)
\* The volumes a sink reports, in percent.
SinkVolumes == {0, 50}

\* let state = Arc::new(RwLock::new(State { .. })).
FreshState(p) ==
    [p EXCEPT !.volume = 0, !.muted = FALSE, !.sink = FALSE, !.raw = FALSE]

\* parse_sink_info.
parse_sink_info(p, v, m) ==
    IF v # p.volume \/ m # p.muted
    THEN [p EXCEPT !.sink = TRUE, !.volume = v, !.muted = m, !.raw = TRUE,
                   !.events = Append(@, <<"Changed", v, m>>)]
    ELSE [p EXCEPT !.sink = TRUE]

InitVolume ==
    /\ MainIdle
    /\ ServerIdle
    /\ IoIdle
    /\ BlkIdle
    /\ kimai = [pc |-> "none"]
    /\ stamp = [seconds |-> 0, text |-> <<>>]
    /\ \E up \in BOOLEAN :
           pulse = [pc |-> "recv",
                    server |-> up,
                    thread |-> "connecting",
                    events |-> <<>>,
                    cmd |-> "none",
                    commands |-> <<>>,
                    volume |-> 0,
                    muted |-> FALSE,
                    sink |-> FALSE,
                    raw |-> FALSE,
                    block |-> <<>>]

\* The audio server stops or starts.
ServerStop ==
    /\ pulse.server
    /\ pulse' = [pulse EXCEPT !.server = FALSE]
    /\ UNCHANGED <<barVars, srvVars, ioVars, blkVars, kimai, stamp>>

ServerStart ==
    /\ ~pulse.server
    /\ pulse' = [pulse EXCEPT !.server = TRUE]
    /\ UNCHANGED <<barVars, srvVars, ioVars, blkVars, kimai, stamp>>

\* pulse_thread up to its main loop: the context becomes Ready and the
\* command thread is spawned, or the connect fails (expect), the iteration
\* fails or the context becomes Failed or Terminated, and the thread ends
\* with the command receiver dropped.
PulseConnect ==
    /\ pulse.thread = "connecting"
    /\ pulse' = IF pulse.server
                THEN [pulse EXCEPT !.thread = "running", !.cmd = "recv"]
                ELSE [pulse EXCEPT !.thread = "ended"]
    /\ UNCHANGED <<barVars, srvVars, ioVars, blkVars, kimai, stamp>>

\* A callback of the main loop with the info of the default sink.
PulseSinkInfo(v, m) ==
    /\ pulse.thread = "running"
    /\ pulse.server
    /\ Len(pulse.events) < MaxQueue
    /\ pulse' = parse_sink_info(pulse, v, m)
    /\ UNCHANGED <<barVars, srvVars, ioVars, blkVars, kimai, stamp>>

\* The main loop finds the context not Ready: Reconnect is sent and the
\* thread ends.
PulseLost ==
    /\ pulse.thread = "running"
    /\ ~pulse.server
    /\ pulse' = [pulse EXCEPT !.thread = "ended", !.events = Append(@, <<"Reconnect">>)]
    /\ UNCHANGED <<barVars, srvVars, ioVars, blkVars, kimai, stamp>>

\* mainloop.iterate returns Quit or Err: the thread ends.
PulseIterateFails ==
    /\ pulse.thread = "running"
    /\ ~pulse.server
    /\ pulse' = [pulse EXCEPT !.thread = "ended"]
    /\ UNCHANGED <<barVars, srvVars, ioVars, blkVars, kimai, stamp>>

\* The supervisor takes an event.  Reconnect: it joins the thread, sends
\* QuitThread to the command thread, replaces the command channel and
\* spawns pulse_thread.  Changed: it stores the state and sends a wake.
SupervisorRecv ==
    /\ pulse.pc = "recv"
    /\ pulse.events # <<>>
    /\ LET e == Head(pulse.events)
       IN  IF e[1] = "Reconnect"
           THEN /\ pulse.thread = "ended"
                /\ pulse' = FreshState([pulse EXCEPT !.events = Tail(@),
                                                     !.cmd = "none",
                                                     !.commands = <<>>,
                                                     !.thread = "connecting"])
                /\ wakeQueue' = wakeQueue
           ELSE /\ pulse' = [pulse EXCEPT !.events = Tail(@), !.block = <<e[2], e[3]>>]
                /\ wakeQueue' = IF wakeQueue < MaxQueue THEN wakeQueue + 1 ELSE wakeQueue
    /\ UNCHANGED <<state, senders, pc, index, out, rendered, frame, elapsed, reason,
                   srvVars, ioVars, blkVars, kimai, stamp>>

\* click(): buttons 3, 4 and 5 send a command; the send fails if the
\* receiver is gone.
VolumeClick(button) ==
    /\ button \in {3, 4, 5}
    /\ Len(pulse.commands) < MaxQueue
    /\ pulse' = IF pulse.cmd = "recv"
                THEN [pulse EXCEPT !.commands =
                          Append(@, CASE button = 3 -> "ToggleMute"
                                      [] button = 4 -> "VolUp"
                                      [] OTHER -> "VolDown")]
                ELSE pulse
    /\ UNCHANGED <<barVars, srvVars, ioVars, blkVars, kimai, stamp>>

\* The command thread takes a command: VolUp and VolDown unwrap
\* raw_volume if default_sink_index is Some.
CommandRecv ==
    /\ pulse.cmd = "recv"
    /\ pulse.commands # <<>>
    /\ pulse' = [pulse EXCEPT
                     !.commands = Tail(@),
                     !.cmd = IF /\ Head(pulse.commands) \in {"VolUp", "VolDown"}
                                /\ pulse.sink
                                /\ ~pulse.raw
                             THEN "panicked"
                             ELSE @]
    /\ UNCHANGED <<barVars, srvVars, ioVars, blkVars, kimai, stamp>>

NextVolume ==
    \/ ServerStop
    \/ ServerStart
    \/ PulseConnect
    \/ \E v \in SinkVolumes, m \in BOOLEAN : PulseSinkInfo(v, m)
    \/ PulseLost
    \/ PulseIterateFails
    \/ SupervisorRecv
    \/ \E button \in {3, 4, 5} : VolumeClick(button)
    \/ CommandRecv

SpecVolume == InitVolume /\ [][NextVolume]_vars

\* The threads of the block take the steps they can take; nothing is
\* asked of the audio server or of the user.
SpecVolumeFair ==
    /\ SpecVolume
    /\ WF_vars(PulseConnect)
    /\ WF_vars(PulseLost)
    /\ WF_vars(SupervisorRecv)
    /\ WF_vars(CommandRecv)

(***************************************************************************)
(* Properties of the statusbar-rs render loop.                             *)
(***************************************************************************)
\* Number of Some results among the first i results of a tick.
Rank(r, i) == Cardinality({j \in 1 .. i : r[j].some})

\* The decimal strings of the first registry indices, written out.
DecimalNames == <<"0", "1", "2", "3", "4", "5", "6", "7", "8", "9", "10", "11">>

\* C1: the frame printed by a tick holds exactly the results that were Some,
\* in registry order: the k-th Some result of the tick is the k-th entry of
\* the frame, the frame has no other entries, and so it is never longer than
\* the registry.
C1_FrameIsSomesInOrder ==
    pc = "wait" =>
        /\ Len(rendered) = NumBlocks
        /\ Len(frame) = Rank(rendered, NumBlocks)
        /\ Len(frame) <= NumBlocks
        /\ \A i \in 1 .. NumBlocks :
               rendered[i].some =>
                   frame[Rank(rendered, i)].full_text = rendered[i].full_text

\* A tick whose first producer rendered None and whose next two rendered
\* different texts has printed its frame.
C1_Witness ==
    /\ pc = "wait"
    /\ ~rendered[1].some
    /\ rendered[2].some
    /\ rendered[3].some
    /\ rendered[2].full_text # rendered[3].full_text
    /\ Len(frame) >= 2

\* C2: every entry of a printed frame is named by the decimal string of the
\* registry index of its producer, whatever its position in the frame and
\* whatever name the producer returned.
C2_NameIsRegistryIndex ==
    pc = "wait" =>
        \A i \in 1 .. Len(rendered) :
            rendered[i].some => frame[Rank(rendered, i)].name = DecimalNames[i]

\* Producers [A, B, C] with A rendering None and B returning a name of its
\* own: the frame's names are "1" and "2".
C2_Witness ==
    /\ pc = "wait"
    /\ ~rendered[1].some
    /\ rendered[2].some
    /\ rendered[2].name = "9"
    /\ rendered[3].some
    /\ frame[1].name = "1"
    /\ frame[2].name = "2"

\* C3: notifications that queue up while the loop renders or waits collapse
\* into one following tick: when a wait is ended by a notification, no
\* notification is left in the channel to start a further tick.
C3_WakesCoalesce ==
    [][(pc = "wait" /\ pc' = "render" /\ reason' = "wake") => wakeQueue' = 0]_vars

C5_UnchangedTickIsSilent ==
    /\ [][(pc = "render" /\ pc' # "render") =>
              IF out' = content
              THEN pc' = "wait" /\ content' = content /\ wake' = wake
              ELSE pc' = "lock_content"]_vars
    /\ [][content' # content =>
              pc = "lock_content" /\ out # content /\ content' = out]_vars
    /\ [][(\E s \in Sessions : wake'[s] > wake[s]) => pc = "fanout"]_vars

\* A session had registered and written the cache before the last render;
\* that tick has finished and has neither signalled the session nor made it
\* write.
C5_Witness ==
    /\ pc = "wait"
    /\ out = content
    /\ ~wroteSinceTick
    /\ \E s \in Sessions :
           /\ Registered(s)
           /\ spc[s] = "recv"
           /\ wake[s] = 0
           /\ written[s] = <<content>>

\* C6 as stated: when a tick renders the payload of the tick before it, no
\* session has written bytes to its client since that earlier tick.
C6_NoWriteBetweenEqualTicks ==
    [][(pc = "render" /\ pc' # "render" /\ out' = last) => ~wroteSinceTick]_vars

\* C6 as amended: an unchanged tick queues no wake, so a session writes only
\* on connect and once per wake of a changed tick: its writes and queued
\* wakes together never exceed one plus the number of changed ticks.
C6_WritesBoundedByChanges ==
    \A s \in Sessions : Len(written[s]) + wake[s] <= 1 + changes

\* After the first tick and with the block unchanged, a session joined,
\* wrote the cache between two ticks and is owed nothing more.
C6_Witness ==
    /\ pc = "wait"
    /\ changes = 1
    /\ Payload(state[0]) = last
    /\ wroteSinceTick
    /\ \E s \in Sessions :
           /\ spc[s] = "recv"
           /\ Len(written[s]) + wake[s] = 1 + changes

\* C7: when a session reaches the wait on its wake signal for the first
\* time while the cache is not empty, the cache value is what it has
\* written, as the first write on its connection.
C7_LateJoinGetsCache ==
    [][\A s \in Sessions :
           (spc[s] # "recv" /\ spc'[s] = "recv" /\ written[s] = <<>> /\ content # "")
               => written'[s] = <<content>>]_vars

\* The first tick had finished its fan-out over an empty session set; a
\* session registered afterwards and has written the cache without a wake.
C7_Witness ==
    /\ pc = "wait"
    /\ changes = 1
    /\ index = 0
    /\ consumers = <<1>>
    /\ spc[1] = "recv"
    /\ wake[1] = 0
    /\ written[1] = <<content>>

\* C8: once a tick has changed the cache, every registered session whose
\* peer stays connected and keeps reading (no write of the session blocks)
\* eventually has a payload at least as new as that change as its last
\* write; as the block changes finitely often here, its last write
\* eventually is the cache value.
C8_FanOutReachesSessions ==
    \A s \in Sessions :
        (Registered(s) /\ pc = "lock_consumers")
            ~> \/ client[s] # "open"
               \/ spc[s] = "writing"
               \/ written[s] # <<>> /\ written[s][Len(written[s])] = content

\* C9: a session blocked in a write to a stalled peer holds up nothing but
\* itself: the tick loop is never waiting for the cache lock while such a
\* session holds its read guard.
C9_StalledClientBlocksOnlyItself ==
    \A t \in Sessions : spc[t] = "writing" => pc # "lock_content"

\* C10: a failed write, a disconnect or an ended inbound stream of one
\* session changes nothing of the tick loop, the accept loop or any other
\* session; the fan-out loop goes on past a session whose thread has ended
\* and signals every session whose thread is alive; neither loop ever
\* stops.
C10_SessionFailureIsIsolated ==
    /\ [][\A s \in Sessions :
              (\/ spc[s] # "done" /\ spc'[s] = "done"
               \/ rpc[s] # "done" /\ rpc'[s] = "done"
               \/ client[s] # "closed" /\ client'[s] = "closed")
              => /\ pc' = pc
                 /\ acceptPc' = acceptPc
                 /\ \A t \in Sessions \ {s} :
                        spc'[t] = spc[t] /\ wake'[t] = wake[t] /\ written'[t] = written[t]]_vars
    /\ [][(pc = "fanout" /\ index < Len(consumers) /\ (index' # index \/ pc' # pc))
              => /\ pc' = "fanout"
                 /\ index' = index + 1
                 /\ spc[consumers[index + 1]] # "done"
                        => wake'[consumers[index + 1]] = wake[consumers[index + 1]] + 1]_vars
    /\ [](pc \in {"render", "lock_content", "lock_consumers", "fanout", "wait"})
    /\ [](acceptPc = "running")

\* The first session's initial write failed; a fan-out loop went past it
\* and signalled the second session, which wrote the changed payload.
C10_Witness ==
    /\ pc = "wait"
    /\ consumers = <<1, 2>>
    /\ index = 2
    /\ spc[1] = "done"
    /\ wake[1] = 0
    /\ written[1] = <<>>
    /\ spc[2] = "recv"
    /\ Len(written[2]) = 2
    /\ written[2][2] = content

\* C11: the session set holds only sessions whose outbound thread is
\* alive: a session whose write failed is no longer in it.
C11_SessionSetHoldsLiveSessions ==
    \A k \in 1 .. Len(consumers) : spc[consumers[k]] # "done"

(***************************************************************************)
(* Properties of the readers of click events.                              *)
(***************************************************************************)
\* The characters of a name as one string.
RECURSIVE Join(_)
Join(c) == IF c = <<>> THEN "" ELSE c[1] \o Join(Tail(c))

\* The line the reading thread takes in this step.
Taken == input[rdPos + 1]

\* C12: when the router takes a line that is an event object after at most
\* one leading comma and whose name is the decimal string of an index n of
\* the registry, that step calls click exactly once, on block n.
C12_DispatchByName ==
    [][(rdPc = "run" /\ rdPos' = rdPos + 1) =>
           \A n \in Indices :
               (/\ Taken.body = "event"
                /\ Taken.commas <= 1
                /\ Taken.name.some
                /\ Join(Taken.name.chars) = to_string(n))
               => clicked' = Append(clicked, [block |-> n, button |-> Taken.button,
                                              name |-> Taken.name])]_vars

\* The router has taken a comma-prefixed event named "2" and has clicked
\* the block at index 2, and nothing else.
C12_Witness ==
    /\ binary = "statusbar-rs"
    /\ rdPos = 1
    /\ input[1].commas = 1
    /\ input[1].body = "event"
    /\ input[1].name = SomeName(<<"2">>)
    /\ Len(clicked) = 1
    /\ clicked[1].block = 2

\* C13: when the router takes an event whose name is absent, is not parsed
\* as an unsigned integer or is an index not smaller than the registry
\* size, that step calls no click and the router keeps running.
C13_DiscardBadName ==
    [][(rdPc = "run" /\ rdPos' = rdPos + 1) =>
           ((/\ Taken.body = "event"
             /\ Taken.commas <= 1
             /\ \/ ~Taken.name.some
                \/ parse(Taken.name.chars) = -1
                \/ parse(Taken.name.chars) >= NumBlocks)
            => clicked' = clicked /\ rdPc' = "run")]_vars

\* The router has taken an event named for an index past the registry and
\* one without name or with a name that is no unsigned integer, has clicked
\* nothing and runs.
C13_Witness ==
    /\ rdPc = "run"
    /\ rdPos = Len(input)
    /\ rdPos = MaxLines
    /\ clicked = <<>>
    /\ \A k \in 1 .. Len(input) : input[k].body = "event" /\ input[k].commas = 0
    /\ \E k \in 1 .. Len(input) : parse(input[k].name.chars) >= NumBlocks
    /\ \E k \in 1 .. Len(input) :
           ~input[k].name.some \/ parse(input[k].name.chars) = -1

\* C14: the router loop ends only when the input is at end of file: no
\* line, whatever it holds, ends it while lines are left to read.
C14_OnlyEofEndsRouter ==
    [][(rdPc = "run" /\ rdPc' = "done") => rdPos = Len(input)]_vars

\* C15 as stated: every event line a client sends is forwarded once to the
\* click of the served block, whatever its name, and after any other line
\* the inbound thread keeps reading.
C15_InboundSkipsAnyBadLine ==
    [][(rdPc = "run" /\ rdPos' = rdPos + 1) =>
           IF Taken.body = "event" /\ Taken.commas = 0
           THEN clicked' = Append(clicked, [block |-> 0, button |-> Taken.button,
                                            name |-> Taken.name])
           ELSE clicked' = clicked /\ rdPc' # "done"]_vars

\* C15 as amended: an event line is forwarded once, whatever its name; a
\* line of text that is no event is skipped and the thread keeps reading;
\* a line that cannot be read as text ends the thread without a click.
C15_InboundRelay ==
    [][(rdPc = "run" /\ rdPos' = rdPos + 1) =>
           IF Taken.body = "event" /\ Taken.commas = 0
           THEN clicked' = Append(clicked, [block |-> 0, button |-> Taken.button,
                                            name |-> Taken.name])
           ELSE IF Taken.body = "undecodable"
           THEN clicked' = clicked /\ rdPc' = "done"
           ELSE clicked' = clicked /\ rdPc' = "run"]_vars

\* The inbound thread has skipped a line that is no event and has then
\* forwarded an event without name.
C15_Witness ==
    /\ binary = "statusbar-server"
    /\ rdPos = 2
    /\ input[1].body = "text"
    /\ input[2].body = "event"
    /\ ~input[2].name.some
    /\ Len(clicked) = 1
    /\ clicked[1].name = NoName

\* C20: no thread that reads click events is ever inside a click() that
\* waits for a network request or a socket write.
C20_ClickNeverBlocks == rdPc # "in_click"

(***************************************************************************)
(* Properties of the adapters' output.                                     *)
(***************************************************************************)
\* C16: every pass of the statusbar-rs loop prints exactly one line, the
\* frame of that pass, whether or not it equals the line before it.
C16_EveryTickPrintsItsFrame ==
    [][(pc = "render" /\ pc' = "wait") =>
           stdout' = Append(stdout, FrameLine(RenderFrom(0, <<>>)))]_vars

\* Two passes have printed the same frame twice.
C16_Witness ==
    /\ pc = "wait"
    /\ Len(stdout) = 4
    /\ stdout[3] = stdout[4]

\* C17: a pass of the statusbar-waybar loop prints its line exactly when
\* the line differs from the last line printed (or nothing was printed
\* yet); no two lines in a row are equal, and the first pass prints.
C17_WaybarPrintsOnChange ==
    /\ [][(pc = "render" /\ pc' = "wait") =>
              IF stdout = <<>> \/ stdout[Len(stdout)] # <<WaybarFormat(state[0])>>
              THEN stdout' = Append(stdout, <<WaybarFormat(state[0])>>)
              ELSE stdout' = stdout]_vars
    /\ [](\A k \in 1 .. Len(stdout) - 1 : stdout[k] # stdout[k + 1])
    /\ [](pc = "wait" => stdout # <<>>)

\* A pass has printed nothing, as its line, rendered from a block that
\* differs from the one before in its name only, is the last line printed.
C17_Witness ==
    /\ pc = "wait"
    /\ frame = <<>>
    /\ state[0] = I3Block("x", "9")
    /\ stdout = << <<WaybarFormat(I3Block("", ""))>>, <<WaybarFormat(state[0])>> >>

\* C18: stdout is the header object, then the line "[", then frame lines
\* only, each an array followed by a comma; the array of frames is never
\* closed and the loop prints only after both opening lines.
C18_StreamOrder ==
    /\ Len(stdout) >= 1 => stdout[1] \in HeaderLines(binary)
    /\ Len(stdout) >= 2 => stdout[2] = <<"[">>
    /\ \A k \in 3 .. Len(stdout) :
           /\ Len(stdout[k]) >= 3
           /\ stdout[k][1] = "["
           /\ stdout[k][Len(stdout[k]) - 1] = "]"
           /\ stdout[k][Len(stdout[k])] = ","
    /\ \A k \in 1 .. Len(stdout) : stdout[k] # <<"]">>
    /\ pc \in {"render", "wait"} => Len(stdout) >= 2

\* The header, the opening line and two frames have been printed, one of
\* them with more than one block.
C18_Witness ==
    /\ Len(stdout) = 4
    /\ Len(stdout[3]) > 4
    /\ stdout[4] = <<"[", "]", ",">>

(***************************************************************************)
(* Properties of the producers' background tasks.                          *)
(***************************************************************************)
\* C19: every commit of a background task to state that render() reads
\* puts one notification on the wake channel.
C19_EveryCommitNotifies ==
    [][committer' # committer => wakeQueue' = wakeQueue + 1]_vars

(***************************************************************************)
(* Further properties of the statusbar-server tick loop and sessions.      *)
(***************************************************************************)
\* C22: no two writes in a row on one connection carry the same payload.
C22_NoRepeatedPayload ==
    \A s \in Sessions :
        \A k \in 1 .. Len(written[s]) - 1 : written[s][k] # written[s][k + 1]

\* C23: when a session is signalled the cache already holds the payload of
\* the tick that signals; the cache changes only in the tick loop's write,
\* before its fan-out; every write of a session sends the cache value of
\* the moment of the write.  A write that follows a signal therefore sends
\* the payload of that signal's change or of a later one.
C23_CacheBeforeSignal ==
    /\ [][(\E s \in Sessions : wake'[s] > wake[s])
              => content = out /\ content' = content]_vars
    /\ [][content' # content => pc = "lock_content" /\ wake' = wake]_vars
    /\ [][\A s \in Sessions :
              written'[s] # written[s] => written'[s] = Append(written[s], content)]_vars

\* A session that had written an older payload was signalled by a changed
\* tick and has written the new cache value.
C23_Witness ==
    /\ pc = "wait"
    /\ changes = 2
    /\ \E s \in Sessions :
           /\ wake[s] = 0
           /\ spc[s] = "recv"
           /\ Len(written[s]) = 2
           /\ written[s][1] # written[s][2]
           /\ written[s][2] = content

\* The tick loop has no change of the cache left to announce to session s.
Announced(s) ==
    \/ pc \in {"render", "lock_content", "wait"}
    \/ pc = "fanout" /\ \E k \in 1 .. index : consumers[k] = s

\* C24: a session that waits for a wake with none queued, while no change
\* of the cache is left to announce to it, has the cache value as its last
\* write.
C24_NoLostUpdateOnJoin ==
    \A s \in Sessions :
        (spc[s] = "recv" /\ wake[s] = 0 /\ content # "" /\ Announced(s))
            => written[s] # <<>> /\ written[s][Len(written[s])] = content

\* A session joined between the cache write and the fan-out of the second
\* changed tick: it wrote the cache on joining and again on the wake.
C24_Witness ==
    /\ pc = "wait"
    /\ changes = 2
    /\ consumers = <<1, 2>>
    /\ spc[2] = "recv"
    /\ wake[2] = 0
    /\ written[2] = <<content, content>>
    /\ Len(written[1]) = 2
    /\ written[1][1] # content

\* C25: a thread that holds or requests the cache lock is a session that
\* has left the session-set lock behind (it is registered), and the tick
\* loop holds the session-set lock in its fan-out only, where a send is
\* always possible; the fan-out ends, and outside of it a registration is
\* possible at once.
C25_LockDiscipline ==
    /\ [](\A s \in Sessions : spc[s] \in {"init", "write", "writing"} => Registered(s))
    /\ []((pc = "fanout" /\ index < Len(consumers)) => ENABLED TickSend)
    /\ [](\A s \in Sessions :
              (pc # "fanout" /\ spc[s] = "idle"
               /\ \A t \in Sessions : t < s => spc[t] # "idle")
                  => ENABLED Accept(s))
    /\ (pc = "fanout") ~> (pc = "wait")

\* The tick loop is in its fan-out while a session is blocked in a write
\* with the cache lock and another client has yet to connect.
C25_Witness ==
    /\ pc = "fanout"
    /\ index < Len(consumers)
    /\ \E s \in Sessions : spc[s] = "writing"
    /\ \E s \in Sessions : spc[s] = "idle"

\* C26: at the start of a tick `last` equals the cache; the cache changes
\* only in the tick loop's write; after a tick the cache is the payload of
\* that tick; so the comparison with `last` is the comparison with the
\* cache.
C26_LastEqualsCache ==
    /\ [](pc = "render" => last = content)
    /\ [](pc = "wait" => content = out /\ last = out)
    /\ [][content' # content => pc = "lock_content" /\ pc' = "lock_consumers"]_vars
    /\ [][(pc = "render" /\ pc' # "render")
              => (pc' = "lock_content") = (out' # content)]_vars

\* The second changed tick is over.
C26_Witness ==
    /\ pc = "wait"
    /\ changes = 2
    /\ wroteSinceTick
    /\ content = Payload(state[0])

\* C27: the end of a session's inbound thread is final and leaves the
\* session's outbound thread where it is; the outbound thread ends only
\* in a write to a closed connection.
C27_InboundEndLeavesOutbound ==
    /\ [][\A s \in Sessions :
              (rpc[s] # "done" /\ rpc'[s] = "done") => spc'[s] = spc[s]]_vars
    /\ [][\A s \in Sessions : rpc[s] = "done" => rpc'[s] = "done"]_vars
    /\ [][\A s \in Sessions :
              (spc[s] # "done" /\ spc'[s] = "done")
                  => /\ spc[s] \in {"init", "write", "writing"}
                     /\ client[s] = "closed"
                     /\ content # ""]_vars

\* The inbound thread of a session has ended on an open connection; the
\* outbound thread has since written a changed payload and waits again.
C27_Witness ==
    \E s \in Sessions :
        /\ rpc[s] = "done"
        /\ client[s] = "open"
        /\ spc[s] = "recv"
        /\ Len(written[s]) = 2
        /\ written[s][2] = content

\* What a served block can render, with the block whose texts are empty.
PublishedValues == RenderValues \cup {I3Block("", "")}

\* C29: the payload for None is the placeholder object and not nothing,
\* and differs from the payload of every Some, in the server and in the
\* waybar adapter; a tick that renders None publishes it; a tick after a
\* change between Some and None goes on to write the cache and fan out;
\* after a tick the cache is not empty.
C29_PlaceholderForNone ==
    /\ [](/\ Payload(NoneBlock) = "{\"full_text\":\"\", \"name\":\"\"}\n"
          /\ WaybarFormat(NoneBlock) = "{\"text\":\"\"}"
          /\ \A b \in PublishedValues : b.some => Payload(b) # Payload(NoneBlock)
          /\ \A b \in WaybarValues \cup PublishedValues :
                 b.some => WaybarFormat(b) # WaybarFormat(NoneBlock))
    /\ [](pc = "wait" => content # "")
    /\ [][(pc = "render" /\ pc' # "render" /\ ~state[0].some)
              => out' = Payload(NoneBlock)]_vars
    /\ [][(pc = "render" /\ pc' # "render" /\ last # ""
           /\ (last = Payload(NoneBlock)) # (~state[0].some))
              => pc' = "lock_content"]_vars

\* The block went from Some to None: the placeholder is in the cache and
\* a session has written it after the payload of the Some.
C29_Witness ==
    /\ pc = "wait"
    /\ content = Payload(NoneBlock)
    /\ \E s \in Sessions : written[s] = <<Payload(I3Block("x", "")), Payload(NoneBlock)>>

(***************************************************************************)
(* Properties of the producers' threads.                                   *)
(***************************************************************************)
\* C21: render() never stands before a lock whose holder waits for the
\* bus or for a HID device.
C21_RenderNeverWaitsOnIo ==
    (tpc["render"] = "percentages" /\ holder # "none") => tpc[holder] \notin IoPositions

\* C28: every notification in the wake channel is for an update that is
\* committed; the tick loop has consumed notifications of committed
\* updates only; and once render() of a task's block has run in a tick, it
\* has read the newest update whose notification was consumed, or a newer
\* one.
C28_CommitBeforeNotify ==
    /\ \A i \in 1 .. Len(announced) : committed[announced[i][1]] >= announced[i][2]
    /\ \A t \in NotifyingTasks : owed[t] <= committed[t]
    /\ \A t \in NotifyingTasks :
           (tpc["main"] = "wait" \/ (tpc["main"] = "render" /\ index > ProducerBlock(t)))
               => shown[t] >= owed[t]

\* The tick that consumed the notification of a task's first update has
\* rendered its second, whose notification is still in the channel.
C28_Witness ==
    \E t \in NotifyingTasks :
        /\ tpc["main"] = "wait"
        /\ owed[t] = 1
        /\ shown[t] = 2
        /\ announced = <<<<t, 2>>>>

\* C30: connected implies that the stream is stored; a call of render()
\* returns None exactly if connected is false; an event is written only by
\* a click() that found connected true and the stream stored, and a
\* click() that finds connected false returns without a further step.
C30_SocketConnection ==
    /\ [](connected => stream = "Some")
    /\ [][shown' # shown
              => (shown'["socket_reader"] = NoBlock) = (~connected)]_vars
    /\ [][(tpc["main"] = "render" /\ tpc'["main"] = "wait")
              => (shown'["socket_reader"] = NoBlock) = (~connected)]_vars
    /\ [][peer' # peer => tpc["click"] = "write" /\ stream = "Some"]_vars
    /\ [][(tpc["click"] = "idle" /\ tpc'["click"] # "idle") => connected]_vars

\* After a block and a click that was written, the connection is lost:
\* connected is cleared, the stream is still stored, render() has
\* returned None, and a click() has just returned without writing.
C30_Witness ==
    /\ ~connected
    /\ stream = "Some"
    /\ tpc["socket_reader"] = "drop"
    /\ tpc["main"] = "wait"
    /\ tpc["click"] = "idle"
    /\ shown["socket_reader"] = NoBlock
    /\ committed["socket_reader"] >= 1
    /\ peer >= 1

(***************************************************************************)
(* SocketBlock: reconnection and the frame of the content.                 *)
(***************************************************************************)
\* C31: if from some point on a server listens on the socket path for
\* good, the block is connected again and again.
C31_EventuallyReconnects ==
    (<>[]available) => []<>connected

\* The same while the reader thread lives.
ReconnectsWhileReaderLives ==
    ((<>[]available) /\ [](tpc["socket_reader"] # "panicked")) => []<>connected

\* Every failure leads to a new attempt to connect while the reader
\* thread lives, with connected cleared on the way.
RetriesWhileReaderLives ==
    /\ [][(tpc["socket_reader"] # "drop" /\ tpc'["socket_reader"] = "drop") => ~connected']_vars
    /\ (tpc["socket_reader"] = "drop") ~> (tpc["socket_reader"] = "connect")

\* C32: the content changes only when the reader thread has parsed a line
\* of the socket; render() returns it whenever connected is true.
C32_ContentFrame ==
    /\ [][committed' # committed
              => tpc["socket_reader"] = "read" /\ tpc'["socket_reader"] = "send"]_vars
    /\ [][(tpc["main"] = "render" /\ tpc'["main"] = "wait" /\ connected)
              => shown'["socket_reader"] = committed["socket_reader"]]_vars

\* On the second connection render() has returned the block received on
\* the first.
C32_Witness ==
    /\ connects = 2
    /\ connected
    /\ tpc["socket_reader"] = "read"
    /\ tpc["main"] = "wait"
    /\ committed["socket_reader"] = 1
    /\ shown["socket_reader"] = 1

\* The same before any line was ever received: the default content.
C32_WitnessDefault ==
    /\ connects = 2
    /\ connected
    /\ tpc["main"] = "wait"
    /\ committed["socket_reader"] = 0
    /\ shown["socket_reader"] = 0

(***************************************************************************)
(* seconds_to_timestamp.                                                   *)
(***************************************************************************)
\* The place of the first ":" of a text, 0 if there is none.
Colon(t) ==
    IF \E k \in 1 .. Len(t) : t[k] = ":"
    THEN CHOOSE k \in 1 .. Len(t) : t[k] = ":" /\ \A j \in 1 .. k - 1 : t[j] # ":"
    ELSE 0

\* C37: for seconds >= 0 the text is H:MM, H in decimal without leading
\* zeros, MM two digits below 60, and H * 60 + MM is the number of minutes
\* rounded up.
C37_TimestampRoundsUp ==
    (stamp.text # <<>> /\ stamp.seconds >= 0) =>
        LET t == stamp.text
            c == Colon(t)
            h == SubSeq(t, 1, c - 1)
            m == SubSeq(t, c + 1, Len(t))
        IN  /\ c > 1
            /\ Len(m) = 2
            /\ \A k \in 1 .. Len(h) : IsDigit(h[k])
            /\ \A k \in 1 .. 2 : IsDigit(m[k])
            /\ Len(h) > 1 => h[1] # "0"
            /\ DigitsValue(m) \in 0 .. 59
            /\ DigitsValue(h) * 60 + DigitsValue(m) = (stamp.seconds + 59) \div 60

\* 59 minutes and one second are shown as one hour.
C37_Witness ==
    /\ stamp.seconds = 3541
    /\ stamp.text = <<"1", ":", "0", "0">>

(***************************************************************************)
(* KimaiBlock.                                                             *)
(***************************************************************************)
\* C33: in state Error the request thread has exited; from then on the
\* state stays Error, the thread stays exited, no request is made and
\* every render() returns the error block.  As long as the state is
\* NoData render() returns None, and a first request that succeeds is
\* preceded by NoData only.
C33_ErrorIsAbsorbing ==
    /\ [](kimai.state = "Error" => kimai.pc = "exited")
    /\ [][kimai.state = "Error"
              => /\ kimai'.state = "Error"
                 /\ kimai'.pc = "exited"
                 /\ kimai'.fetches = kimai.fetches
                 /\ kimai'.queue = kimai.queue
                 /\ kimai'.rendered \in {kimai.rendered, "ERROR"}]_vars
    /\ [][kimai'.rendered # kimai.rendered
              => (kimai'.rendered = "ERROR") = (kimai.state = "Error")]_vars
    /\ [][kimai'.rendered # kimai.rendered
              => (kimai'.rendered = "None") = (kimai.state = "NoData")]_vars
    /\ [](~kimai.successes => kimai.state \in {"NoData", "Error"})
    /\ [][(~kimai.successes /\ kimai'.successes) => kimai.state = "NoData"]_vars

\* After an error of the second request a click and a render() have
\* come: the error block is shown and nothing is queued.
C33_Witness ==
    /\ kimai.state = "Error"
    /\ kimai.successes
    /\ kimai.fetches = 2
    /\ kimai.rendered = "ERROR"
    /\ kimai.queue = 0

\* C36: a sample sends a notification only if a threshold is set, its
\* hours are at or above the threshold and a timesheet is active; and not
\* more than one is sent without a sample below the threshold in between.
C36_NotifyOncePerCrossing ==
    /\ kimai.sampleSent
           => /\ kimai.notify # NoThreshold
              /\ kimai.hours >= kimai.notify
              /\ kimai.active
    /\ kimai.sinceBelow <= 1

\* A notification was sent, later samples at or above the threshold sent
\* none.
C36_Witness ==
    /\ kimai.sinceBelow = 1
    /\ ~kimai.sampleSent
    /\ kimai.notify = 1
    /\ kimai.hours >= 1
    /\ kimai.active
    /\ kimai.fetches = 3
    /\ kimai.pc = "wait"

(***************************************************************************)
(* VolumeBlock.                                                            *)
(***************************************************************************)
\* C34: a pulse thread that has ended is followed by a new one.
C34_PulseThreadRestarts ==
    (pulse.thread = "ended") ~> (pulse.thread # "ended")

\* C35: raw_volume is Some whenever default_sink_index is Some, and the
\* command thread never panics.
C35_RawVolumeWithSink ==
    /\ pulse.sink => pulse.raw
    /\ pulse.cmd # "panicked"

====
